---- MODULE Spec2Model ----
(***************************************************************************)
(* Model of the magic-link login flow (app/routers/portal.py), the email   *)
(* notification manager and its configuration cache                        *)
(* (app/utils/email_notifications.py), the notification configuration      *)
(* write path (app/routers/email_notifications.py) and the event router    *)
(* (app/utils/report.py).                                                  *)
(*                                                                         *)
(* Optional values (Python None) are sequences of length <= 1:             *)
(* None is <<>> and a present value x is <<x>>.                            *)
(***************************************************************************)
EXTENDS Integers, Sequences, FiniteSets, Bags, TLC

\* ------------------------------------------------------------------ bounds
MaxTokens == 1
MaxVerify == 2
MaxTicks == 1
NumThreads == 2
MaxCalls == 3

\* -------------------------------------------------------- optional values
None == <<>>
Some(x) == <<x>>
IsNone(o) == o = <<>>
Get(o) == o[1]

\* ------------------------------------------------------------- constants
\* portal.py:30
GENERIC_MESSAGE == "If the email is registered, a sign-in link has been sent."
\* portal.py:45, the status code of the magic-link request route
HTTP_202_ACCEPTED == 202
\* portal.py:135 and 138, the status code of both redirects
HTTP_303_SEE_OTHER == 303
\* portal.py:63, the fallback when the configured TTL is not positive
DefaultLoginTTL == 15
\* portal.py:140, timedelta(minutes=1).total_seconds()
SecondsPerMinute == 60

\* ---------------------------------------------------------------- inputs
\* The users table: username, optional email (nullable column).
Users ==
  { [id |-> 1, username |-> "ann@x.com", email |-> Some("ann@x.com")],
    [id |-> 2, username |-> "bob@x.com", email |-> None] }

\* Identifiers a client may post to the magic-link request.
Identifiers == {"ann@x.com", " Ann@X.com ", "bob@x.com", "eve@x.com"}

\* HTTP requests: X-Forwarded-For hops, the peer address, the User-Agent
\* header and the URL scheme.
Requests ==
  { [forwarded_for |-> Some(<<" 1.1.1.1 ", "9.9.9.9">>), client |-> Some("2.2.2.2"),
     user_agent |-> Some("ua-a"), scheme |-> "https"],
    [forwarded_for |-> None, client |-> Some("3.3.3.3"),
     user_agent |-> None, scheme |-> "http"] }

\* The requests the magic-link request endpoint is driven with.
IssueRequests == {r \in Requests : r.scheme = "https"}

\* Values of USER_LOGIN_TOKEN_EXPIRE_MINUTES and USER_SESSION_EXPIRE_MINUTES
\* the process may be configured with.
Configs ==
  { [login_ttl |-> 1, session_ttl |-> 2],
    [login_ttl |-> 0, session_ttl |-> 0],
    [login_ttl |-> 2, session_ttl |-> 0 - 1] }

\* Plaintext tokens: one more than can be issued, so that a token that was
\* never issued can be presented.
Plaintexts == 1..(MaxTokens + 1)

\* str.strip() and str.lower() on the identifiers above.
Strip(s) == IF s = " Ann@X.com " THEN "Ann@X.com"
            ELSE IF s = " 1.1.1.1 " THEN "1.1.1.1" ELSE s
Lower(s) == IF s = "Ann@X.com" THEN "ann@x.com" ELSE s

VARIABLES
  clock,        \* the wall clock, in minutes
  ticks,        \* how many times the clock advanced
  config,       \* the process configuration (config.py values)
  tokens,       \* the user_login_tokens table: a sequence of rows, id = index
  issued,       \* plaintext tokens handed out by issue
  attempts,     \* the verification requests in flight: a bag of frames
  requestLog,   \* the distinct responses the magic-link request endpoint gave
  lastRequest,  \* the case and response of the request just served
  bgTasks,      \* background tasks scheduled by the magic-link request
  lastVerify,   \* the outcome of the verification request that just finished
  wins          \* per token row, how many consume calls succeeded

tokenVars ==
  <<clock, ticks, config, tokens, issued, attempts, requestLog, lastRequest,
    bgTasks, lastVerify, wins>>

VARIABLES
  flags,        \* the NOTIFY_* switches of config.py
  store,        \* email_smtp_settings (at most one row) and
                \* email_notification_preferences (trigger -> enabled)
  cache,        \* the EmailNotificationManager singleton
  thr,          \* the request-handling threads: id -> frame
  lastDone,     \* the frame of the operation that finished last
  calls         \* how many calls the manager was given

emailVars == <<flags, store, cache, thr, lastDone, calls>>

vars == <<tokenVars, emailVars>>


\* ===================================================== magic-link: request

\* Python truthiness of an optional string.
Falsy(o) == IsNone(o) \/ Get(o) = ""

\* _get_client_ip: the first X-Forwarded-For hop, stripped, else the peer
\* address, else None.
GetClientIp(req) ==
  IF ~IsNone(req.forwarded_for) /\ Get(req.forwarded_for) # <<>>
  THEN Some(Strip(Head(Get(req.forwarded_for))))
  ELSE IF ~IsNone(req.client) THEN req.client ELSE None

\* crud.get_user: the account whose username is the identifier, if any.
GetUser(identifier) ==
  LET m == {u \in Users : u.username = identifier}
  IN IF m = {} THEN None ELSE Some(CHOOSE u \in m : TRUE)

\* request_magic_link, the lookup: exact identifier first, then the
\* lower-cased one when it differs.
LookupUser(email) ==
  LET identifier == Strip(email)
      exact == GetUser(identifier)
      lowered == Lower(identifier)
  IN IF ~IsNone(exact) THEN exact
     ELSE IF lowered # identifier THEN GetUser(lowered) ELSE None

\* MessageResponse with the route's status code.
MessageResponse(detail) == [status |-> HTTP_202_ACCEPTED, detail |-> detail]

NoAccountResponse_NotFound == [status |-> 404, detail |-> "User not found"]

\* The response when no account with an email matched.
NoAccountResponse == MessageResponse(GENERIC_MESSAGE)

\* The response after a token was issued and the email scheduled.
AcceptedResponse == MessageResponse(GENERIC_MESSAGE)

\* expires_in of request_magic_link.
ExpiresIn_Configured == config.login_ttl

ExpiresIn == IF config.login_ttl > 0 THEN config.login_ttl ELSE DefaultLoginTTL

Hash_Plaintext(p) == <<"plaintext", p>>

\* The one-way hash of a plaintext token.
Hash(p) == <<"sha256", p>>

\* crud.create_user_login_token: the new row; only the hash is stored.
NewTokenRow(user, expires_in, ip, ua, p) ==
  [id |-> Len(tokens) + 1, user_id |-> user.id, token_hash |-> Hash(p),
   created_at |-> clock, expires_at |-> clock + expires_in, used_at |-> None,
   requested_ip |-> ip, requested_user_agent |-> ua,
   consumed_ip |-> None, consumed_user_agent |-> None]

\* The random token of an issuance: one that was not handed out before.
FreshToken == CHOOSE p \in Plaintexts \ issued : \A q \in Plaintexts \ issued : p <= q

\* Which of the three cases a request falls in (for the log only).
RequestCase(dbuser) ==
  IF IsNone(dbuser) THEN "no_account"
  ELSE IF Falsy(Get(dbuser).email) THEN "no_email" ELSE "with_email"

RequestMagicLinkWithin_TaskWithoutRow(email, req, cap) ==
  LET dbuser == LookupUser(email) IN
  /\ ~IsNone(dbuser) /\ ~Falsy(Get(dbuser).email)
  /\ Len(bgTasks) < cap
  /\ bgTasks' = Append(bgTasks,
        [email |-> Get(Get(dbuser).email), username |-> Get(dbuser).username,
         link |-> <<"/auth/magic", FreshToken>>, expires_in_minutes |-> ExpiresIn])
  /\ requestLog' = requestLog \cup {AcceptedResponse}
  /\ lastRequest' = Some([case |-> RequestCase(dbuser), response |-> AcceptedResponse])
  /\ lastVerify' = None
  /\ UNCHANGED <<clock, ticks, config, attempts, tokens, issued, wins>>

RequestMagicLinkWithin_MailToIdentifier(email, req, cap) ==
  LET dbuser == LookupUser(email) IN
  /\ IF IsNone(dbuser) \/ Falsy(Get(dbuser).email)
     THEN /\ requestLog' = requestLog \cup {NoAccountResponse}
          /\ lastRequest' = Some([case |-> RequestCase(dbuser), response |-> NoAccountResponse])
          /\ UNCHANGED <<tokens, issued, bgTasks, wins>>
     ELSE /\ Len(tokens) < cap
          /\ LET p == FreshToken IN
               /\ tokens' = Append(tokens,
                     NewTokenRow(Get(dbuser), ExpiresIn, GetClientIp(req), req.user_agent, p))
               /\ issued' = issued \cup {p}
               /\ wins' = Append(wins, 0)
               /\ bgTasks' = Append(bgTasks,
                     [email |-> Strip(email), username |-> Get(dbuser).username,
                      link |-> <<"/auth/magic", p>>, expires_in_minutes |-> ExpiresIn])
          /\ requestLog' = requestLog \cup {AcceptedResponse}
          /\ lastRequest' = Some([case |-> RequestCase(dbuser), response |-> AcceptedResponse])
  /\ lastVerify' = None
  /\ UNCHANGED <<clock, ticks, config, attempts>>

\* POST /api/auth/magic-link, while the table holds fewer than cap rows.
RequestMagicLinkWithin(email, req, cap) ==
  LET dbuser == LookupUser(email) IN
  /\ IF IsNone(dbuser) \/ Falsy(Get(dbuser).email)
     THEN /\ requestLog' = requestLog \cup {NoAccountResponse}
          /\ lastRequest' = Some([case |-> RequestCase(dbuser), response |-> NoAccountResponse])
          /\ UNCHANGED <<tokens, issued, bgTasks, wins>>
     ELSE /\ Len(tokens) < cap
          /\ LET p == FreshToken IN
               /\ tokens' = Append(tokens,
                     NewTokenRow(Get(dbuser), ExpiresIn, GetClientIp(req), req.user_agent, p))
               /\ issued' = issued \cup {p}
               /\ wins' = Append(wins, 0)
               /\ bgTasks' = Append(bgTasks,
                     [email |-> Get(Get(dbuser).email), username |-> Get(dbuser).username,
                      link |-> <<"/auth/magic", p>>, expires_in_minutes |-> ExpiresIn])
          /\ requestLog' = requestLog \cup {AcceptedResponse}
          /\ lastRequest' = Some([case |-> RequestCase(dbuser), response |-> AcceptedResponse])
  /\ lastVerify' = None
  /\ UNCHANGED <<clock, ticks, config, attempts>>

\* POST /api/auth/magic-link.
RequestMagicLink(email, req) == RequestMagicLinkWithin(email, req, MaxTokens)

\* ==================================================== magic-link: verify

UserById(id) == CHOOSE u \in Users : u.id = id

VerifyTarget_Swapped(error) ==
  IF error = Some("expired") THEN "/?login=invalid" ELSE "/?login=expired"

VerifyTarget_OnlyNotFoundInvalid(error) ==
  IF error = Some("not_found") THEN "/?login=invalid" ELSE "/?login=expired"

VerifyTarget_AlwaysInvalid(error) == "/?login=invalid"

\* The redirect target of a failed verification.
VerifyTarget(error) ==
  IF error # Some("expired") THEN "/?login=invalid" ELSE "/?login=expired"

SessionMaxAge_Minutes ==
  IF config.session_ttl > 0 THEN Some(config.session_ttl) ELSE None

\* max_age of the session cookie.
SessionMaxAge ==
  IF config.session_ttl > 0 THEN Some(config.session_ttl * SecondsPerMinute) ELSE None

SessionCookie(user, req) ==
  [name |-> "USER_SESSION_COOKIE_NAME", value |-> <<"session", user.id>>,
   max_age |-> SessionMaxAge, httponly |-> TRUE,
   secure |-> (req.scheme = "https"), samesite |-> "lax", path |-> "/"]

VerifyResponse_NoCookie(user, error, req) ==
  IF IsNone(user)
  THEN [target |-> VerifyTarget(error), status |-> HTTP_303_SEE_OTHER, cookie |-> None]
  ELSE [target |-> "/?login=success", status |-> HTTP_303_SEE_OTHER, cookie |-> None]

\* verify_magic_link after consume returned (user, error).
VerifyResponse(user, error, req) ==
  IF IsNone(user)
  THEN [target |-> VerifyTarget(error), status |-> HTTP_303_SEE_OTHER, cookie |-> None]
  ELSE [target |-> "/?login=success", status |-> HTTP_303_SEE_OTHER,
        cookie |-> Some(SessionCookie(Get(user), req))]

\* The record of a finished verification: what consume returned and the
\* response built from it. unused and late tell what the lookup saw.
Finished(a, unused, user, error) ==
  [token |-> a.token, row |-> a.row, unused |-> unused,
   late |-> (a.row # 0 /\ a.now > tokens[a.row].expires_at),
   user |-> user, error |-> error,
   response |-> VerifyResponse(user, error, Get(a.req))]

\* crud.consume_user_login_token, the lookup by hash.
FindByHash(p) ==
  LET m == {i \in 1..Len(tokens) : tokens[i].token_hash = Hash(p)}
  IN IF m = {} THEN 0 ELSE CHOOSE i \in m : TRUE

ConsumeCheck_NoExpiry(row, now) ==
  IF row = 0 THEN Some("not_found")
  ELSE IF ~IsNone(tokens[row].used_at) THEN Some("already_used")
  ELSE None

\* crud.consume_user_login_token, the checks on the row that was read.
ConsumeCheck(row, now) ==
  IF row = 0 THEN Some("not_found")
  ELSE IF ~IsNone(tokens[row].used_at) THEN Some("already_used")
  ELSE IF now > tokens[row].expires_at THEN Some("expired")
  ELSE None

StillUnused_Unconditional(row) == TRUE

\* crud.consume_user_login_token, the guard of the conditional update.
StillUnused(row) == IsNone(tokens[row].used_at)

\* GET /auth/magic, up to the checks of consume.
VerifyLookup(p, req) ==
  /\ BagCardinality(attempts) < MaxVerify
  /\ LET row == FindByHash(p)
         err == ConsumeCheck(row, clock)
         a == [token |-> p, req |-> Some(req), now |-> clock, row |-> row]
     IN IF IsNone(err)
        THEN /\ attempts' = attempts (+) SetToBag({a})
             /\ lastVerify' = None
        ELSE /\ lastVerify' = Some(Finished(a, row # 0 /\ err # Some("already_used"), None, err))
             /\ UNCHANGED attempts
  /\ lastRequest' = None
  /\ UNCHANGED <<clock, ticks, config, tokens, issued, requestLog, bgTasks, wins>>

\* GET /auth/magic, the conditional update of consume and the response.
VerifyWrite(a) ==
  /\ BagIn(a, attempts)
  /\ IF StillUnused(a.row)
     THEN /\ tokens' = [tokens EXCEPT ![a.row] =
                 [@ EXCEPT !.used_at = Some(a.now),
                           !.consumed_ip = GetClientIp(Get(a.req)),
                           !.consumed_user_agent = Get(a.req).user_agent]]
          /\ wins' = [wins EXCEPT ![a.row] = @ + 1]
          /\ lastVerify' =
                 Some(Finished(a, TRUE, Some(UserById(tokens[a.row].user_id)), None))
     ELSE /\ lastVerify' = Some(Finished(a, TRUE, None, Some("already_used")))
          /\ UNCHANGED <<tokens, wins>>
  /\ attempts' = attempts (-) SetToBag({a})
  /\ lastRequest' = None
  /\ UNCHANGED <<clock, ticks, config, issued, requestLog, bgTasks>>

\* Time passes: a minute, or a whole default TTL.
Tick ==
  /\ ticks < MaxTicks
  /\ \E d \in {1, DefaultLoginTTL} : clock' = clock + d
  /\ ticks' = ticks + 1
  /\ lastVerify' = None
  /\ lastRequest' = None
  /\ UNCHANGED <<config, tokens, issued, attempts, requestLog, bgTasks, wins>>

\* ============================================== notification configuration

\* EmailNotificationTrigger.
Triggers ==
  {"user_created", "user_updated", "user_deleted", "user_limited", "user_expired",
   "user_enabled", "user_disabled", "data_usage_reset", "data_reset_by_next",
   "subscription_revoked", "reached_usage_percent", "reached_days_left"}

\* A dict with no keys.
EmptyMap == [x \in {} |-> FALSE]

\* dict.get: None when the key is absent.
MapGet(m, k) == IF k \in DOMAIN m THEN Some(m[k]) ELSE None

\* bool(...) of an optional bool: None and False are false.
Truthy(o) == ~IsNone(o) /\ Get(o)

\* The fields of EmailSMTPSettingsUpdate that may be None, and the others.
OptionalKeys == {"username", "password", "from_name"}
RequiredKeys == {"host", "port", "use_tls", "use_ssl", "from_email"}

\* Validated EmailSMTPSettingsUpdate payloads the admin may send.
SmtpPayloads ==
  { [host |-> "smtp.x.com", port |-> 587, username |-> Some("mailer"),
     password |-> Some("pw1"), use_tls |-> TRUE, use_ssl |-> FALSE,
     from_email |-> "vpn@x.com", from_name |-> Some("VPN")],
    [host |-> "smtp.x.com", port |-> 465, username |-> Some(""),
     password |-> Some(""), use_tls |-> FALSE, use_ssl |-> TRUE,
     from_email |-> "vpn@x.com", from_name |-> Some("")] }

\* Request bodies for EmailSMTPSettingsUpdate before validation: None for a
\* flag or for the password means the key was not sent.
RawSmtpPayloads ==
  { [host |-> "smtp.x.com", port |-> 587, username |-> Some("mailer"),
     password |-> Some("pw1"), use_tls |-> Some(TRUE), use_ssl |-> Some(FALSE),
     from_email |-> "vpn@x.com", from_name |-> Some("VPN")],
    [host |-> "smtp.x.com", port |-> 587, username |-> Some("mailer"),
     password |-> Some("pw2"), use_tls |-> None, use_ssl |-> None,
     from_email |-> "vpn@x.com", from_name |-> Some("VPN")],
    [host |-> "smtp.x.com", port |-> 465, username |-> Some(""),
     password |-> Some(""), use_tls |-> Some(FALSE), use_ssl |-> Some(TRUE),
     from_email |-> "vpn@x.com", from_name |-> Some("")],
    [host |-> "smtp.x.com", port |-> 25, username |-> Some("mailer"),
     password |-> None, use_tls |-> Some(FALSE), use_ssl |-> None,
     from_email |-> "vpn@x.com", from_name |-> Some("VPN")],
    [host |-> "smtp.x.com", port |-> 25, username |-> Some("mailer"),
     password |-> Some("pw3"), use_tls |-> Some(FALSE), use_ssl |-> Some(FALSE),
     from_email |-> "vpn@x.com", from_name |-> Some("VPN")],
    [host |-> "smtp.x.com", port |-> 465, username |-> Some("mailer"),
     password |-> Some("pw1"), use_tls |-> None, use_ssl |-> Some(TRUE),
     from_email |-> "vpn@x.com", from_name |-> Some("VPN")],
    [host |-> "smtp.x.com", port |-> 465, username |-> Some("mailer"),
     password |-> Some("pw1"), use_tls |-> Some(TRUE), use_ssl |-> Some(TRUE),
     from_email |-> "vpn@x.com", from_name |-> Some("VPN")] }

\* A field that was not sent takes its default.
FieldOr(o, default) == IF IsNone(o) THEN default ELSE Get(o)

ValidateTlsSslRaises_AbsentTlsIsOff(raw) ==
  ~IsNone(raw.use_ssl) /\ Get(raw.use_ssl) /\ FieldOr(raw.use_tls, FALSE)

\* validate_tls_ssl: the validator of use_ssl, run when use_ssl was sent,
\* with use_tls = values.data.get("use_tls", True).
ValidateTlsSslRaises(raw) ==
  ~IsNone(raw.use_ssl) /\ Get(raw.use_ssl) /\ FieldOr(raw.use_tls, TRUE)

\* The EmailSMTPSettingsUpdate built from a body that passed validation.
Validated(raw) ==
  [raw EXCEPT !.use_tls = FieldOr(@, TRUE), !.use_ssl = FieldOr(@, FALSE)]

\* Preference lists (EmailNotificationPreferenceModel) the admin may send.
PrefPayloads ==
  { <<>>,
    <<[trigger |-> "user_created", enabled |-> TRUE],
      [trigger |-> "reached_usage_percent", enabled |-> TRUE],
      [trigger |-> "user_created", enabled |-> FALSE]>>,
    <<[trigger |-> "user_created", enabled |-> TRUE],
      [trigger |-> "user_limited", enabled |-> TRUE],
      [trigger |-> "reached_usage_percent", enabled |-> TRUE]>> }

\* payload.smtp.model_dump(exclude_none=True)
ModelDump(m) ==
  [k \in RequiredKeys \cup {o \in OptionalKeys : ~IsNone(m[o])} |-> m[k]]

\* d[k] = v
SetKey(d, k, v) == [x \in DOMAIN d \cup {k} |-> IF x = k THEN v ELSE d[x]]

SmtpPayload_EmptyKept(m, existing) ==
  LET d0 == ModelDump(m)
  IN IF "password" \in DOMAIN d0 \/ ~IsNone(existing) THEN d0
     ELSE SetKey(d0, "password", None)

\* update_email_notification_config: the dict handed to the upsert.
SmtpPayload(m, existing) ==
  LET d0 == ModelDump(m)
      d1 == IF MapGet(d0, "username") = Some(Some("")) THEN SetKey(d0, "username", None) ELSE d0
      d2 == IF MapGet(d1, "from_name") = Some(Some("")) THEN SetKey(d1, "from_name", None) ELSE d1
  IN IF "password" \in DOMAIN d2
     THEN SetKey(d2, "password", IF Get(d2["password"]) = "" THEN None ELSE d2["password"])
     ELSE IF IsNone(existing) THEN SetKey(d2, "password", None) ELSE d2

\* crud.upsert_email_smtp_settings: a new row takes the payload; an existing
\* row takes every key of the payload, except that a secret of None keeps the
\* stored secret.
Upsert(existing, d) ==
  IF IsNone(existing)
  THEN [k \in RequiredKeys \cup OptionalKeys |-> IF k \in DOMAIN d THEN d[k] ELSE None]
  ELSE [k \in RequiredKeys \cup OptionalKeys |->
          IF k \in DOMAIN d /\ ~(k = "password" /\ IsNone(d[k]))
          THEN d[k] ELSE Get(existing)[k]]

RECURSIVE DictUpdate(_, _)
\* dict.update with a list of (trigger, enabled): the last entry wins.
DictUpdate(d, list) ==
  IF list = <<>> THEN d
  ELSE DictUpdate(SetKey(d, Head(list).trigger, Head(list).enabled), Tail(list))

PreferencePayload_MergedIntoStored(list) == DictUpdate(store.prefs, list)

\* update_email_notification_config: preference_payload.
PreferencePayload(list) == DictUpdate([t \in Triggers |-> FALSE], list)

\* _load_configuration: the SMTPSettings built from the stored row.
BuildSettings(row) ==
  IF IsNone(row) THEN None
  ELSE Some([host |-> Get(row).host, port |-> Get(row).port,
             username |-> Get(row).username, password |-> Get(row).password,
             use_tls |-> Get(row).use_tls, use_ssl |-> Get(row).use_ssl,
             from_email |-> Get(row).from_email, from_name |-> Get(row).from_name])

\* _load_configuration: the preference dict built from the stored rows.
BuildPreferences(rows) == [t \in DOMAIN rows |-> rows[t]]

\* The manager after __init__ and after invalidate(). sver and pver tell which
\* build each attribute was assigned from (0: the empty sentinel).
EmptyCache ==
  [settings |-> None, preferences |-> EmptyMap, last_loaded |-> None,
   sver |-> 0, pver |-> 0]

EnsureNeedsLoad_Never(c) == FALSE

\* _ensure_configuration: whether it reloads. _preferences is never None.
EnsureNeedsLoad(c) == IsNone(c.settings)

PreferenceEnabled_Ignored(c, trigger) == TRUE

\* self._preferences.get(trigger), as a condition.
PreferenceEnabled(c, trigger) == Truthy(MapGet(c.preferences, trigger))

\* ========================================================== event router

Kinds ==
  {"status_change", "user_created", "user_updated", "user_deleted",
   "user_data_usage_reset", "user_data_reset_by_next", "user_subscription_revoked",
   "data_usage_percent_reached", "expire_days_reached", "login"}

Statuses == {"active", "disabled", "expired", "limited", "on_hold"}

FlagNames ==
  {"NOTIFY_STATUS_CHANGE", "NOTIFY_USER_CREATED", "NOTIFY_USER_UPDATED",
   "NOTIFY_USER_DELETED", "NOTIFY_USER_DATA_USED_RESET", "NOTIFY_USER_SUB_REVOKED",
   "NOTIFY_IF_DATA_USAGE_PERCENT_REACHED", "NOTIFY_IF_DAYS_LEFT_REACHED", "NOTIFY_LOGIN"}

AllOn == [n \in FlagNames |-> TRUE]

\* The switch settings the process may be started with.
FlagConfigs == {AllOn, [n \in FlagNames |-> FALSE]}

\* The switch each entry point tests.
GateFlag(kind) ==
  CASE kind = "status_change" -> "NOTIFY_STATUS_CHANGE"
    [] kind = "user_created" -> "NOTIFY_USER_CREATED"
    [] kind = "user_updated" -> "NOTIFY_USER_UPDATED"
    [] kind = "user_deleted" -> "NOTIFY_USER_DELETED"
    [] kind = "user_data_usage_reset" -> "NOTIFY_USER_DATA_USED_RESET"
    [] kind = "user_data_reset_by_next" -> "NOTIFY_USER_DATA_USED_RESET"
    [] kind = "user_subscription_revoked" -> "NOTIFY_USER_SUB_REVOKED"
    [] kind = "data_usage_percent_reached" -> "NOTIFY_IF_DATA_USAGE_PERCENT_REACHED"
    [] kind = "expire_days_reached" -> "NOTIFY_IF_DAYS_LEFT_REACHED"
    [] kind = "login" -> "NOTIFY_LOGIN"

StatusTrigger_OnHoldDisables(status) ==
  CASE status = "limited" -> Some("user_limited")
    [] status = "expired" -> Some("user_expired")
    [] status = "active" -> Some("user_enabled")
    [] OTHER -> Some("user_disabled")

\* status_change: the trigger of a destination status, if any.
StatusTrigger(status) ==
  CASE status = "limited" -> Some("user_limited")
    [] status = "expired" -> Some("user_expired")
    [] status = "disabled" -> Some("user_disabled")
    [] status = "active" -> Some("user_enabled")
    [] OTHER -> None

\* The trigger an entry point hands to email_notifications.send.
KindTrigger(kind, status) ==
  CASE kind = "status_change" -> StatusTrigger(status)
    [] kind = "user_created" -> Some("user_created")
    [] kind = "user_updated" -> Some("user_updated")
    [] kind = "user_deleted" -> Some("user_deleted")
    [] kind = "user_data_usage_reset" -> Some("data_usage_reset")
    [] kind = "user_data_reset_by_next" -> Some("data_reset_by_next")
    [] kind = "user_subscription_revoked" -> Some("subscription_revoked")
    [] kind = "data_usage_percent_reached" -> Some("reached_usage_percent")
    [] kind = "expire_days_reached" -> Some("reached_days_left")
    [] OTHER -> None

\* The entry points that call telegram and discord.
HasChannels(kind) == kind \notin {"data_usage_percent_reached", "expire_days_reached"}

CatchesChannel_DiscordEscapes(kind, channel) == channel # "discord"

\* The try/except around a reporter call: whether an exception raised by
\* the channel is swallowed there.
CatchesChannel(kind, channel) == TRUE

\* Where an entry point goes after the telegram call.
AfterTelegram(kind, status) ==
  IF kind = "login" THEN "ev_discord"
  ELSE IF kind = "status_change" /\ IsNone(StatusTrigger(status)) THEN "ev_discord"
  ELSE "ev_notify"

\* Where an entry point goes after notify(): user_deleted sends only when it
\* was given the user.
AfterNotify(kind, user) ==
  IF kind = "user_deleted" /\ IsNone(user) THEN "ev_discord" ELSE "send_start"

\* Where an entry point goes after email_notifications.send returned.
AfterSend(kind) ==
  IF kind = "send" THEN "send_return"
  ELSE IF kind = "data_usage_percent_reached" THEN "ev_reminder"
  ELSE IF kind = "expire_days_reached"
       THEN IF flags["NOTIFY_IF_DAYS_LEFT_REACHED"] THEN "ev_reminder" ELSE "ev_return"
  ELSE "ev_discord"

\* The context dict an entry point builds.
NoContext == [by |-> None, reason |-> None, percent |-> None, days |-> None]

EventContext(kind, status) ==
  CASE kind \in {"user_created", "user_updated", "user_deleted", "user_data_usage_reset",
                 "user_subscription_revoked"} -> [NoContext EXCEPT !.by = Some("admin")]
    [] kind = "status_change" /\ status = "disabled" ->
         [NoContext EXCEPT !.by = Some("admin"), !.reason = Some("abuse")]
    [] kind = "status_change" /\ status = "active" -> [NoContext EXCEPT !.by = Some("admin")]
    [] kind = "data_usage_percent_reached" -> [NoContext EXCEPT !.percent = Some(80)]
    [] kind = "expire_days_reached" -> [NoContext EXCEPT !.days = Some(3)]
    [] OTHER -> NoContext

\* ============================================================= rendering

\* _format_actor
FormatActor(actor) == IF Falsy(actor) THEN None ELSE Some("Changed by")

\* The context dicts send may be called with: every key present or absent,
\* the actor also as an empty string.
SendContexts ==
  [by : {None, Some(""), Some("admin")}, reason : {None, Some("abuse")},
   percent : {None, Some(80)}, days : {None, Some(3)}]

\* _wrap_message: greeting, the lines that are not None or empty, regards.
RECURSIVE FilterLines(_)
FilterLines(lines) ==
  IF lines = <<>> THEN <<>>
  ELSE IF Falsy(Head(lines)) THEN FilterLines(Tail(lines))
  ELSE <<Get(Head(lines))>> \o FilterLines(Tail(lines))

WrapMessage_NothingWhenALineIsMissing(identifier, lines) ==
  IF \E i \in 1..Len(lines) : Falsy(lines[i]) THEN <<>>
  ELSE <<"Hello">> \o FilterLines(lines) \o <<"Regards", "Your VPN Administrator">>

WrapMessage(identifier, lines) ==
  <<"Hello">> \o FilterLines(lines) \o <<"Regards", "Your VPN Administrator">>

\* _render: the subject and the body lines of a trigger.
Render(trigger, user, context) ==
  LET identifier == IF Falsy(user.email) THEN user.username ELSE Get(user.email)
      details == Some("details")
      actor == FormatActor(context.by)
      body(lines) == WrapMessage(identifier, lines)
  IN CASE trigger = "user_created" ->
            [subject |-> "Your VPN access is ready", body |-> body(<<Some("created"), details, actor>>)]
       [] trigger = "user_updated" ->
            [subject |-> "Your VPN account was updated", body |-> body(<<Some("updated"), details, actor>>)]
       [] trigger = "user_deleted" ->
            [subject |-> "Your VPN account was removed", body |-> body(<<Some("removed"), actor>>)]
       [] trigger = "user_limited" ->
            [subject |-> "Your VPN account reached its limit", body |-> body(<<Some("limited"), details>>)]
       [] trigger = "user_expired" ->
            [subject |-> "Your VPN account expired", body |-> body(<<Some("expired"), details>>)]
       [] trigger = "user_enabled" ->
            [subject |-> "Your VPN access is active again", body |-> body(<<Some("enabled"), details, actor>>)]
       [] trigger = "user_disabled" ->
            [subject |-> "Your VPN access was disabled",
             body |-> body(<<Some("disabled"),
                             IF Falsy(context.reason) THEN None ELSE Some("Reason"), actor>>)]
       [] trigger = "data_usage_reset" ->
            [subject |-> "Your VPN data usage was reset", body |-> body(<<Some("reset"), details, actor>>)]
       [] trigger = "data_reset_by_next" ->
            [subject |-> "Your VPN plan switched to the next cycle", body |-> body(<<Some("next"), details>>)]
       [] trigger = "subscription_revoked" ->
            [subject |-> "Your subscription links were revoked", body |-> body(<<Some("revoked"), actor>>)]
       [] trigger = "reached_usage_percent" ->
            [subject |-> "Your VPN usage alert",
             body |-> body(<<IF IsNone(context.percent) THEN None ELSE Some("percent"), details>>)]
       [] trigger = "reached_days_left" ->
            [subject |-> "Your VPN subscription is ending soon",
             body |-> body(<<IF IsNone(context.days) THEN None ELSE Some("days"), details>>)]
       [] OTHER -> [subject |-> "", body |-> <<>>]

\* ================================================================ threads

Threads == 1..NumThreads

\* A thread that is running nothing.
Idle == [op |-> "idle", pc |-> "idle"]

\* The locals of a call, as they are when it starts.
Frame ==
  [op |-> "idle", pc |-> "idle", kind |-> "", status |-> "", trigger |-> None,
   user |-> None, context |-> NoContext, smtp |-> None, prefsIn |-> <<>>,
   ldS |-> None, ldP |-> EmptyMap, ldVer |-> 0, obsS |-> None, obsP |-> None,
   reloaded |-> FALSE, startedEmpty |-> FALSE, stored |-> FALSE,
   tgCalled |-> FALSE, tgRaised |-> FALSE, dcCalled |-> FALSE, dcRaised |-> FALSE,
   notified |-> FALSE, emailCalled |-> FALSE, remCalled |-> FALSE,
   sawSettings |-> FALSE, sawPref |-> FALSE, attempted |-> FALSE,
   trace |-> <<>>, fail |-> "", sender |-> None,
   wrote |-> FALSE, invalidated |-> FALSE,
   result |-> None, outcome |-> "", raisedBy |-> ""]

\* The users the domain layer hands to the router.
EventUsers == {u \in Users : TRUE}

\* The (email, username) pairs the magic-link task is started with.
MagicInputs ==
  {[id |-> u.id, username |-> u.username, email |-> IF IsNone(u.email) THEN Some("") ELSE u.email] :
     u \in Users}

\* The build tags in use; a reload takes the smallest one that is free.
LiveTags ==
  LET running == {t \in Threads : thr[t].op # "idle"} IN
  {cache.sver, cache.pver} \cup {thr[t].ldVer : t \in running}
    \cup UNION {{Get(o) : o \in {x \in {thr[t].obsS, thr[t].obsP} : ~IsNone(x)}} : t \in running}

FreshTag == CHOOSE n \in 1..(2 * NumThreads + 3) : n \notin LiveTags /\ \A m \in 1..(n - 1) : m \in LiveTags

\* Whether the cache is the empty sentinel.
IsEmptyCache(c) == IsNone(c.settings) /\ c.preferences = EmptyMap

\* What the store says about a trigger: absent rows count as disabled.
StoredEnabled(trigger) == Truthy(MapGet(store.prefs, trigger))

\* The frame of a call that starts now.
NewFrame(op, pc) ==
  [Frame EXCEPT !.op = op, !.pc = pc, !.startedEmpty = IsEmptyCache(cache)]

Goto(t, f, pc) == thr' = [thr EXCEPT ![t] = [f EXCEPT !.pc = pc]]

\* The call returns to, or raises into, its caller outside the model.
Finish(t, f, outcome, by) ==
  /\ thr' = [thr EXCEPT ![t] = Idle]
  /\ lastDone' = Some([f EXCEPT !.pc = "done", !.outcome = outcome, !.raisedBy = by])

Return(t, f) == Finish(t, f, "returned", "")

\* Nothing in send, send_magic_link or the entry points catches: the
\* exception leaves the call.
Raise(t, f, by) == Finish(t, f, "raised", by)

\* ------------------------------------------------ _ensure_configuration

\* Where a caller of _ensure_configuration continues.
AfterEnsure(op) ==
  CASE op = "is_enabled" -> "ie_read"
    [] op = "event" -> "send_check_s"
    [] op = "magic" -> "ml_check"

\* _ensure_configuration: the test of self._settings.
Ensure(t) ==
  LET f == thr[t] IN
  /\ f.pc = "ensure"
  /\ IF EnsureNeedsLoad(cache)
     THEN Goto(t, f, "load_db")
     ELSE Goto(t, [f EXCEPT !.obsS = Some(cache.sver)], AfterEnsure(f.op))
  /\ UNCHANGED <<flags, store, cache, lastDone>>

\* _load_configuration: the two store reads; a store fault propagates.
LoadDb(t) ==
  LET f == thr[t] IN
  /\ f.pc = "load_db"
  /\ \E fault \in BOOLEAN :
       IF fault
       THEN /\ Raise(t, f, "store")
       ELSE /\ Goto(t, [f EXCEPT !.ldS = BuildSettings(store.smtp),
                                 !.ldP = BuildPreferences(store.prefs),
                                 !.ldVer = FreshTag, !.reloaded = TRUE], "load_set_s")
            /\ UNCHANGED lastDone
  /\ UNCHANGED <<flags, store, cache>>

\* _load_configuration: self._settings = ...
LoadSetSettings(t) ==
  LET f == thr[t] IN
  /\ f.pc = "load_set_s"
  /\ cache' = [cache EXCEPT !.settings = f.ldS, !.sver = f.ldVer]
  /\ Goto(t, f, "load_set_p")
  /\ UNCHANGED <<flags, store, lastDone>>

\* _load_configuration: self._preferences = ...; self._last_loaded = ...
LoadSetPreferences(t) ==
  LET f == thr[t] IN
  /\ f.pc = "load_set_p"
  /\ cache' = [cache EXCEPT !.preferences = f.ldP, !.pver = f.ldVer,
                            !.last_loaded = Some(clock)]
  /\ Goto(t, [f EXCEPT !.ldVer = 0], AfterEnsure(f.op))
  /\ UNCHANGED <<flags, store, lastDone>>

\* ------------------------------------------------------------ is_enabled

StartIsEnabled(t, trigger) ==
  /\ thr[t].op = "idle"
  /\ thr' = [thr EXCEPT ![t] = [NewFrame("is_enabled", "ensure") EXCEPT
                                  !.trigger = Some(trigger),
                                  !.stored = StoredEnabled(trigger)]]
  /\ lastDone' = None
  /\ UNCHANGED <<flags, store, cache>>

\* return bool(self._preferences.get(trigger))
IsEnabledRead(t) ==
  LET f == thr[t] IN
  /\ f.pc = "ie_read"
  /\ Return(t, [f EXCEPT !.obsP = Some(cache.pver),
                         !.result = Some(PreferenceEnabled(cache, Get(f.trigger)))])
  /\ UNCHANGED <<flags, store, cache>>

\* ------------------------------------------------------- the write path

StartWrite(t, smtp, prefs) ==
  /\ thr[t].op = "idle"
  /\ thr' = [thr EXCEPT ![t] = [NewFrame("write", "w_upsert") EXCEPT
                                  !.smtp = Some(smtp), !.prefsIn = prefs]]
  /\ lastDone' = None
  /\ UNCHANGED <<flags, store, cache>>

\* PUT /api/email/notifications from the request body: a body the model
\* rejects is answered with a validation error before the handler runs.
PutConfig(t, raw, prefs) ==
  IF ValidateTlsSslRaises(raw)
  THEN /\ thr[t].op = "idle"
       /\ Finish(t, NewFrame("write", "w_validate"), "rejected", "validation")
       /\ UNCHANGED <<flags, store, cache>>
  ELSE StartWrite(t, Validated(raw), prefs)

\* crud.get_email_smtp_settings and crud.upsert_email_smtp_settings.
WriteUpsert(t) ==
  LET f == thr[t] IN
  /\ f.pc = "w_upsert"
  /\ \E fault \in BOOLEAN :
       IF fault
       THEN /\ Raise(t, f, "store")
            /\ UNCHANGED store
       ELSE /\ store' = [store EXCEPT
                           !.smtp = Some(Upsert(store.smtp, SmtpPayload(Get(f.smtp), store.smtp)))]
            /\ Goto(t, [f EXCEPT !.wrote = TRUE], "w_prefs")
            /\ UNCHANGED lastDone
  /\ UNCHANGED <<flags, cache>>

\* crud.update_email_notification_preferences.
WritePreferences(t) ==
  LET f == thr[t] IN
  /\ f.pc = "w_prefs"
  /\ \E fault \in BOOLEAN :
       IF fault
       THEN /\ Raise(t, f, "store")
            /\ UNCHANGED store
       ELSE /\ store' = [store EXCEPT !.prefs = PreferencePayload(f.prefsIn)]
            /\ Goto(t, f, "w_inv_s")
            /\ UNCHANGED lastDone
  /\ UNCHANGED <<flags, cache>>

\* invalidate: self._settings = None
InvalidateSettings(t) ==
  LET f == thr[t] IN
  /\ f.pc = "w_inv_s"
  /\ cache' = [cache EXCEPT !.settings = None, !.sver = 0]
  /\ Goto(t, f, "w_inv_p")
  /\ UNCHANGED <<flags, store, lastDone>>

\* invalidate: self._preferences = {}; self._last_loaded = None
InvalidatePreferences(t) ==
  LET f == thr[t] IN
  /\ f.pc = "w_inv_p"
  /\ cache' = [cache EXCEPT !.preferences = EmptyMap, !.pver = 0, !.last_loaded = None]
  /\ Return(t, [f EXCEPT !.invalidated = TRUE])
  /\ UNCHANGED <<flags, store>>

\* ------------------------------------------------------------- transport

\* The step of the SMTP conversation that may fail, by the settings.
ConnectFaults(s) ==
  {"none", "connect"} \cup (IF ~s.use_ssl /\ s.use_tls THEN {"starttls"} ELSE {})

\* The calls _deliver_email makes up to the given fault.
ConnectTrace(s, fault) ==
  IF s.use_ssl THEN <<"SMTP_SSL">>
  ELSE IF s.use_tls /\ fault # "connect" THEN <<"SMTP", "starttls">>
  ELSE <<"SMTP">>

\* _login_if_required: whether it logs in.
LoginRequired(c) ==
  /\ ~IsNone(c.settings)
  /\ ~Falsy(Get(c.settings).username)
  /\ ~Falsy(Get(c.settings).password)

DeliverCatches_ConnectOnly(fault) == fault = "connect"

\* _deliver_email: except Exception - every fault raised inside the try is
\* turned into a False result.
DeliverCatches(fault) == TRUE

DeliverReturn_AlwaysTrue(t, f, ok) ==
  LET g == [f EXCEPT !.result = Some(TRUE)] IN
  IF f.op = "magic" THEN Return(t, g)
  ELSE /\ Goto(t, g, AfterSend(f.kind))
       /\ UNCHANGED lastDone

\* Where the caller of _deliver_email continues with its result.
DeliverReturn(t, f, ok) ==
  LET g == [f EXCEPT !.result = Some(ok)] IN
  IF f.op = "magic" THEN Return(t, g)
  ELSE /\ Goto(t, g, AfterSend(f.kind))
       /\ UNCHANGED lastDone

\* An exception inside the try of _deliver_email.
DeliverFault(t, f, fault) ==
  LET g == [f EXCEPT !.fail = fault] IN
  IF DeliverCatches(fault) THEN DeliverReturn(t, g, FALSE) ELSE Raise(t, g, "transport")

\* message["From"] = formataddr((self._settings.from_name or ..., self._settings.from_email))
MessageFrom(t) ==
  LET f == thr[t] IN
  /\ f.pc = "msg_from"
  /\ IF IsNone(cache.settings)
     THEN Raise(t, f, "attribute")
     ELSE /\ Goto(t, [f EXCEPT !.sender =
                        Some(<<IF ~Falsy(Get(cache.settings).from_name)
                               THEN Get(Get(cache.settings).from_name)
                               ELSE Get(cache.settings).from_email,
                               Get(cache.settings).from_email>>)], "deliver_check")
          /\ UNCHANGED lastDone
  /\ UNCHANGED <<flags, store, cache>>

\* _deliver_email: if not self._settings: return False
DeliverCheck(t) ==
  LET f == thr[t] IN
  /\ f.pc = "deliver_check"
  /\ IF IsNone(cache.settings)
     THEN DeliverReturn(t, f, FALSE)
     ELSE Goto(t, f, "deliver_connect") /\ UNCHANGED lastDone
  /\ UNCHANGED <<flags, store, cache>>

\* _deliver_email: the connection, with STARTTLS when asked for.
DeliverConnect(t) ==
  LET f == thr[t] IN
  /\ f.pc = "deliver_connect"
  /\ IF IsNone(cache.settings)
     THEN DeliverFault(t, f, "attribute")
     ELSE \E fault \in ConnectFaults(Get(cache.settings)) :
            LET g == [f EXCEPT !.attempted = TRUE,
                               !.trace = ConnectTrace(Get(cache.settings), fault)]
            IN IF fault # "none"
               THEN DeliverFault(t, g, fault)
               ELSE Goto(t, g, "deliver_login") /\ UNCHANGED lastDone
  /\ UNCHANGED <<flags, store, cache>>

\* _deliver_email: _login_if_required and send_message.
DeliverSend(t) ==
  LET f == thr[t] IN
  /\ f.pc = "deliver_login"
  /\ \E fault \in {"none", "send"} \cup (IF LoginRequired(cache) THEN {"login"} ELSE {}) :
       LET made == (IF LoginRequired(cache) THEN <<"login">> ELSE <<>>)
                      \o (IF fault = "login" THEN <<>> ELSE <<"send_message">>)
           g == [f EXCEPT !.trace = f.trace \o made]
       IN IF fault # "none" THEN DeliverFault(t, g, fault) ELSE DeliverReturn(t, g, TRUE)
  /\ UNCHANGED <<flags, store, cache>>

\* ------------------------------------------------------------------ send

HasNoEmail_Never(user) == FALSE

\* send: not user.email
HasNoEmail(user) == Falsy(user.email)

\* send: if not user.email: return
SendStart(t) ==
  LET f == [thr[t] EXCEPT !.emailCalled = TRUE] IN
  /\ thr[t].pc = "send_start"
  /\ IF HasNoEmail(Get(f.user))
     THEN Goto(t, f, AfterSend(f.kind))
     ELSE Goto(t, f, "ensure")
  /\ UNCHANGED <<flags, store, cache, lastDone>>

\* send: if not self._settings ...: return
SendCheckSettings(t) ==
  LET f == thr[t] IN
  /\ f.pc = "send_check_s"
  /\ IF IsNone(cache.settings)
     THEN Goto(t, f, AfterSend(f.kind))
     ELSE Goto(t, [f EXCEPT !.sawSettings = TRUE, !.obsS = Some(cache.sver)], "send_check_p")
  /\ UNCHANGED <<flags, store, cache, lastDone>>

\* send: ... or not self._preferences.get(trigger): return; then _render.
SendCheckPreference(t) ==
  LET f == thr[t]
      enabled == PreferenceEnabled(cache, Get(f.trigger))
      g == [f EXCEPT !.obsP = Some(cache.pver), !.sawPref = enabled]
      r == Render(Get(f.trigger), Get(f.user), f.context)
  IN
  /\ f.pc = "send_check_p"
  /\ IF ~enabled THEN Goto(t, g, AfterSend(f.kind))
     ELSE IF r.subject = "" \/ r.body = <<>> THEN Goto(t, g, AfterSend(f.kind))
     ELSE Goto(t, g, "msg_from")
  /\ UNCHANGED <<flags, store, cache, lastDone>>

\* email_notifications.send called on its own, with any trigger and context.
StartSend(t, trigger, user, context) ==
  /\ thr[t].op = "idle"
  /\ thr' = [thr EXCEPT ![t] = [NewFrame("event", "send_start") EXCEPT
                                  !.kind = "send", !.trigger = Some(trigger),
                                  !.user = Some(user), !.context = context,
                                  !.stored = StoredEnabled(trigger)]]
  /\ lastDone' = None
  /\ UNCHANGED <<flags, store, cache>>

\* send returns to the caller that called it on its own.
SendReturn(t) ==
  /\ thr[t].pc = "send_return"
  /\ Return(t, thr[t])
  /\ UNCHANGED <<flags, store, cache>>

\* -------------------------------------------------------- send_magic_link

StartMagicLink(t, input) ==
  /\ thr[t].op = "idle"
  /\ LET f == [NewFrame("magic", "ensure") EXCEPT !.user = Some(input)] IN
     IF Falsy(input.email)
     THEN Return(t, [f EXCEPT !.result = Some(FALSE)])
     ELSE thr' = [thr EXCEPT ![t] = f] /\ lastDone' = None
  /\ UNCHANGED <<flags, store, cache>>

\* send_magic_link: if not self._settings: return False
MagicLinkCheck(t) ==
  LET f == thr[t] IN
  /\ f.pc = "ml_check"
  /\ IF IsNone(cache.settings)
     THEN Return(t, [f EXCEPT !.result = Some(FALSE)])
     ELSE Goto(t, [f EXCEPT !.sawSettings = TRUE], "msg_from") /\ UNCHANGED lastDone
  /\ UNCHANGED <<flags, store, cache>>

\* ----------------------------------------------------------- entry points

\* An entry point is called; all but expire_days_reached test their switch
\* first and do nothing when it is off.
StartEvent(t, kind, status, user) ==
  /\ thr[t].op = "idle"
  /\ LET trigger == KindTrigger(kind, status)
         f == [NewFrame("event", IF HasChannels(kind) THEN "ev_telegram" ELSE "ev_notify") EXCEPT
                 !.kind = kind, !.status = status, !.user = user, !.trigger = trigger,
                 !.context = EventContext(kind, status),
                 !.stored = ~IsNone(trigger) /\ StoredEnabled(Get(trigger))]
     IN IF kind # "expire_days_reached" /\ ~flags[GateFlag(kind)]
        THEN Return(t, f)
        ELSE thr' = [thr EXCEPT ![t] = f] /\ lastDone' = None
  /\ UNCHANGED <<flags, store, cache>>

\* try: telegram.report_...(...) except Exception: pass
EventTelegram(t) ==
  LET f == thr[t] IN
  /\ f.pc = "ev_telegram"
  /\ \E raised \in BOOLEAN :
       LET g == [f EXCEPT !.tgCalled = TRUE, !.tgRaised = raised] IN
       IF raised /\ ~CatchesChannel(f.kind, "telegram")
       THEN Raise(t, g, "telegram")
       ELSE Goto(t, g, AfterTelegram(f.kind, f.status)) /\ UNCHANGED lastDone
  /\ UNCHANGED <<flags, store, cache>>

\* notify(...)
EventNotify(t) ==
  LET f == thr[t] IN
  /\ f.pc = "ev_notify"
  /\ Goto(t, [f EXCEPT !.notified = TRUE], AfterNotify(f.kind, f.user))
  /\ UNCHANGED <<flags, store, cache, lastDone>>

\* create_notification_reminder(db, ...); a store fault propagates.
EventReminder(t) ==
  LET f == [thr[t] EXCEPT !.remCalled = TRUE] IN
  /\ thr[t].pc = "ev_reminder"
  /\ \E fault \in BOOLEAN : IF fault THEN Raise(t, f, "store") ELSE Return(t, f)
  /\ UNCHANGED <<flags, store, cache>>

\* expire_days_reached with its switch off: nothing after send.
EventReturn(t) ==
  /\ thr[t].pc = "ev_return"
  /\ Return(t, thr[t])
  /\ UNCHANGED <<flags, store, cache>>

\* try: discord.report_...(...) except Exception: pass
EventDiscord(t) ==
  LET f == thr[t] IN
  /\ f.pc = "ev_discord"
  /\ \E raised \in BOOLEAN :
       LET g == [f EXCEPT !.dcCalled = TRUE, !.dcRaised = raised] IN
       IF raised /\ ~CatchesChannel(f.kind, "discord")
       THEN Raise(t, g, "discord")
       ELSE Return(t, g)
  /\ UNCHANGED <<flags, store, cache>>

\* ---------------------------------------------------------- specifications

\* One step of whatever call thread t is running.
ManagerStep(t) ==
  \/ Ensure(t)
  \/ LoadDb(t)
  \/ LoadSetSettings(t)
  \/ LoadSetPreferences(t)
  \/ IsEnabledRead(t)
  \/ WriteUpsert(t)
  \/ WritePreferences(t)
  \/ InvalidateSettings(t)
  \/ InvalidatePreferences(t)
  \/ SendStart(t)
  \/ SendCheckSettings(t)
  \/ SendCheckPreference(t)
  \/ MagicLinkCheck(t)
  \/ MessageFrom(t)
  \/ DeliverCheck(t)
  \/ DeliverConnect(t)
  \/ DeliverSend(t)

RouterStep(t) ==
  \/ EventTelegram(t)
  \/ EventNotify(t)
  \/ EventReminder(t)
  \/ EventReturn(t)
  \/ EventDiscord(t)

\* Handlers run one at a time: a thread moves only while the others are idle.
Alone(t) == \A u \in Threads \ {t} : thr[u].op = "idle"

EmailInit ==
  /\ flags \in FlagConfigs
  /\ store = [smtp |-> None, prefs |-> EmptyMap]
  /\ cache = EmptyCache
  /\ thr = [t \in Threads |-> Idle]
  /\ lastDone = None
  /\ calls = 0

\* ---------------------------------------------------------- login tokens

TokenInit ==
  /\ clock = 0
  /\ ticks = 0
  /\ config \in Configs
  /\ tokens = <<>>
  /\ issued = {}
  /\ attempts = EmptyBag
  /\ requestLog = {}
  /\ lastRequest = None
  /\ bgTasks = <<>>
  /\ lastVerify = None
  /\ wins = <<>>

TokenNext ==
  \/ \E email \in Identifiers, req \in IssueRequests :
       RequestMagicLink(email, req) /\ UNCHANGED emailVars
  \/ \E p \in Plaintexts, req \in Requests : VerifyLookup(p, req) /\ UNCHANGED emailVars
  \/ \E a \in BagToSet(attempts) : VerifyWrite(a) /\ UNCHANGED emailVars
  \/ Tick /\ UNCHANGED emailVars

\* The portal's token endpoints, with the notification side at rest.
PortalInit == TokenInit /\ EmailInit /\ flags = AllOn

SpecToken == PortalInit /\ [][TokenNext]_vars

\* Issuance alone: requests from every kind of client, with one row more
\* than the portal specification allows, so that issuances can be compared.
IssueInit == TokenInit /\ EmailInit /\ flags = AllOn

IssueNext ==
  \/ \E email \in Identifiers, req \in Requests :
       RequestMagicLinkWithin(email, req, MaxTokens + 1) /\ UNCHANGED emailVars
  \/ Tick /\ UNCHANGED emailVars

SpecIssue == IssueInit /\ [][IssueNext]_vars

\* ------------------------------------------------- notification handlers

\* The arguments the domain layer calls an entry point with.
EventStatuses(kind) == IF kind = "status_change" THEN Statuses ELSE {""}

EventUserArgs(kind) ==
  IF kind = "login" THEN {None}
  ELSE {Some(u) : u \in EventUsers} \cup (IF kind = "user_deleted" THEN {None} ELSE {})

\* The notification side, with the token side at rest.
RouterInit == TokenInit /\ config.login_ttl = 1 /\ EmailInit

\* The worker that runs the handlers when they run one at a time.
Worker == CHOOSE t \in Threads : \A u \in Threads : t <= u

Sequential(t, A) == Alone(t) /\ A /\ UNCHANGED <<tokenVars, calls>>

RouterNext ==
  \/ \E t \in {Worker}, trigger \in Triggers : Sequential(t, StartIsEnabled(t, trigger))
  \/ \E t \in {Worker}, smtp \in SmtpPayloads, prefs \in PrefPayloads :
       Sequential(t, StartWrite(t, smtp, prefs))
  \/ \E t \in {Worker}, input \in MagicInputs : Sequential(t, StartMagicLink(t, input))
  \/ \E t \in {Worker}, kind \in Kinds :
       \E status \in EventStatuses(kind), user \in EventUserArgs(kind) :
         Sequential(t, StartEvent(t, kind, status, user))
  \/ \E t \in {Worker} : Sequential(t, Ensure(t))
  \/ \E t \in {Worker} : Sequential(t, LoadDb(t))
  \/ \E t \in {Worker} : Sequential(t, LoadSetSettings(t))
  \/ \E t \in {Worker} : Sequential(t, LoadSetPreferences(t))
  \/ \E t \in {Worker} : Sequential(t, IsEnabledRead(t))
  \/ \E t \in {Worker} : Sequential(t, WriteUpsert(t))
  \/ \E t \in {Worker} : Sequential(t, WritePreferences(t))
  \/ \E t \in {Worker} : Sequential(t, InvalidateSettings(t))
  \/ \E t \in {Worker} : Sequential(t, InvalidatePreferences(t))
  \/ \E t \in {Worker} : Sequential(t, SendStart(t))
  \/ \E t \in {Worker} : Sequential(t, SendCheckSettings(t))
  \/ \E t \in {Worker} : Sequential(t, SendCheckPreference(t))
  \/ \E t \in {Worker} : Sequential(t, MagicLinkCheck(t))
  \/ \E t \in {Worker} : Sequential(t, MessageFrom(t))
  \/ \E t \in {Worker} : Sequential(t, DeliverCheck(t))
  \/ \E t \in {Worker} : Sequential(t, DeliverConnect(t))
  \/ \E t \in {Worker} : Sequential(t, DeliverSend(t))
  \/ \E t \in {Worker} : Sequential(t, EventTelegram(t))
  \/ \E t \in {Worker} : Sequential(t, EventNotify(t))
  \/ \E t \in {Worker} : Sequential(t, EventReminder(t))
  \/ \E t \in {Worker} : Sequential(t, EventReturn(t))
  \/ \E t \in {Worker} : Sequential(t, EventDiscord(t))

\* The router, the manager and the admin write path, one handler at a time.
SpecRouter == RouterInit /\ [][RouterNext]_vars

\* ---------------------------------------------- the manager under threads

\* The calls that run against the manager at the same time: a preference
\* check, a usage alert, a magic-link mail and an admin write.
CacheTriggers == {"reached_usage_percent"}

CacheUsers == {u \in Users : ~IsNone(u.email)}

CachePrefs == {p \in PrefPayloads : Len(p) > 0}

CacheInit == TokenInit /\ config.login_ttl = 1 /\ EmailInit /\ flags = AllOn

Concurrent(A) == A /\ UNCHANGED <<tokenVars, calls>>

\* A call is admitted while fewer than MaxCalls have been.
Admitted(A) == calls < MaxCalls /\ calls' = calls + 1 /\ A /\ UNCHANGED tokenVars

CacheNext ==
  \/ \E t \in Threads, trigger \in CacheTriggers : Admitted(StartIsEnabled(t, trigger))
  \/ \E t \in Threads, smtp \in SmtpPayloads, prefs \in CachePrefs :
       Admitted(StartWrite(t, smtp, prefs))
  \/ \E t \in Threads, input \in CacheUsers : Admitted(StartMagicLink(t, input))
  \/ \E t \in Threads, user \in CacheUsers :
       Admitted(StartEvent(t, "data_usage_percent_reached", "", Some(user)))
  \/ \E t \in Threads : Concurrent(Ensure(t))
  \/ \E t \in Threads : Concurrent(LoadDb(t))
  \/ \E t \in Threads : Concurrent(LoadSetSettings(t))
  \/ \E t \in Threads : Concurrent(LoadSetPreferences(t))
  \/ \E t \in Threads : Concurrent(IsEnabledRead(t))
  \/ \E t \in Threads : Concurrent(WriteUpsert(t))
  \/ \E t \in Threads : Concurrent(WritePreferences(t))
  \/ \E t \in Threads : Concurrent(InvalidateSettings(t))
  \/ \E t \in Threads : Concurrent(InvalidatePreferences(t))
  \/ \E t \in Threads : Concurrent(SendStart(t))
  \/ \E t \in Threads : Concurrent(SendCheckSettings(t))
  \/ \E t \in Threads : Concurrent(SendCheckPreference(t))
  \/ \E t \in Threads : Concurrent(MagicLinkCheck(t))
  \/ \E t \in Threads : Concurrent(MessageFrom(t))
  \/ \E t \in Threads : Concurrent(DeliverCheck(t))
  \/ \E t \in Threads : Concurrent(DeliverConnect(t))
  \/ \E t \in Threads : Concurrent(DeliverSend(t))
  \/ \E t \in Threads : Concurrent(EventNotify(t))
  \/ \E t \in Threads : Concurrent(EventReminder(t))

\* The manager with its callers interleaved statement by statement.
SpecCache == CacheInit /\ [][CacheNext]_vars

\* ------------------------------------------- the configuration endpoint

ConfigInit == TokenInit /\ config.login_ttl = 1 /\ EmailInit /\ flags = AllOn

ConfigNext ==
  \/ \E t \in {Worker}, raw \in RawSmtpPayloads, prefs \in CachePrefs :
       Sequential(t, PutConfig(t, raw, prefs))
  \/ \E t \in {Worker}, trigger \in CacheTriggers : Sequential(t, StartIsEnabled(t, trigger))
  \/ \E t \in {Worker} : Sequential(t, Ensure(t))
  \/ \E t \in {Worker} : Sequential(t, LoadDb(t))
  \/ \E t \in {Worker} : Sequential(t, LoadSetSettings(t))
  \/ \E t \in {Worker} : Sequential(t, LoadSetPreferences(t))
  \/ \E t \in {Worker} : Sequential(t, IsEnabledRead(t))
  \/ \E t \in {Worker} : Sequential(t, WriteUpsert(t))
  \/ \E t \in {Worker} : Sequential(t, WritePreferences(t))
  \/ \E t \in {Worker} : Sequential(t, InvalidateSettings(t))
  \/ \E t \in {Worker} : Sequential(t, InvalidatePreferences(t))

\* Configuration writes from raw request bodies, and the reads that fill
\* the cache, one call at a time.
SpecConfig == ConfigInit /\ [][ConfigNext]_vars

\* ---------------------------------------------- delivery of a message

DeliveryInit == TokenInit /\ config.login_ttl = 1 /\ EmailInit /\ flags = AllOn

DeliveryNext ==
  \/ \E t \in {Worker}, raw \in RawSmtpPayloads, prefs \in CachePrefs :
       Sequential(t, PutConfig(t, raw, prefs))
  \/ \E t \in {Worker}, input \in CacheUsers : Sequential(t, StartMagicLink(t, input))
  \/ \E t \in {Worker} : Sequential(t, Ensure(t))
  \/ \E t \in {Worker} : Sequential(t, LoadDb(t))
  \/ \E t \in {Worker} : Sequential(t, LoadSetSettings(t))
  \/ \E t \in {Worker} : Sequential(t, LoadSetPreferences(t))
  \/ \E t \in {Worker} : Sequential(t, WriteUpsert(t))
  \/ \E t \in {Worker} : Sequential(t, WritePreferences(t))
  \/ \E t \in {Worker} : Sequential(t, InvalidateSettings(t))
  \/ \E t \in {Worker} : Sequential(t, InvalidatePreferences(t))
  \/ \E t \in {Worker} : Sequential(t, MagicLinkCheck(t))
  \/ \E t \in {Worker} : Sequential(t, MessageFrom(t))
  \/ \E t \in {Worker} : Sequential(t, DeliverCheck(t))
  \/ \E t \in {Worker} : Sequential(t, DeliverConnect(t))
  \/ \E t \in {Worker} : Sequential(t, DeliverSend(t))

\* Magic-link mails delivered under every configuration the endpoint
\* accepts, one call at a time.
SpecDelivery == DeliveryInit /\ [][DeliveryNext]_vars

\* ------------------------------------------------- send on its own

\* The store after an admin write: settings of either mode, and the twelve
\* triggers all enabled or all disabled.
RenderInit ==
  /\ TokenInit /\ config.login_ttl = 1
  /\ flags = AllOn
  /\ \E m \in SmtpPayloads, on \in BOOLEAN :
       store = [smtp |-> Some(Upsert(None, SmtpPayload(m, None))),
                prefs |-> [trigger \in Triggers |-> on]]
  /\ cache = EmptyCache
  /\ thr = [t \in Threads |-> Idle]
  /\ lastDone = None
  /\ calls = 0

RenderNext ==
  \/ \E t \in {Worker}, trigger \in Triggers, user \in EventUsers, context \in SendContexts :
       Sequential(t, StartSend(t, trigger, user, context))
  \/ \E t \in {Worker} : Sequential(t, SendStart(t))
  \/ \E t \in {Worker} : Sequential(t, Ensure(t))
  \/ \E t \in {Worker} : Sequential(t, LoadDb(t))
  \/ \E t \in {Worker} : Sequential(t, LoadSetSettings(t))
  \/ \E t \in {Worker} : Sequential(t, LoadSetPreferences(t))
  \/ \E t \in {Worker} : Sequential(t, SendCheckSettings(t))
  \/ \E t \in {Worker} : Sequential(t, SendCheckPreference(t))
  \/ \E t \in {Worker} : Sequential(t, MessageFrom(t))
  \/ \E t \in {Worker} : Sequential(t, DeliverCheck(t))
  \/ \E t \in {Worker} : Sequential(t, DeliverConnect(t))
  \/ \E t \in {Worker} : Sequential(t, DeliverSend(t))
  \/ \E t \in {Worker} : Sequential(t, SendReturn(t))

\* send called with every trigger and every context, one call at a time.
SpecRender == RenderInit /\ [][RenderNext]_vars

\* ------------------------------------- the request and its deferred mail

\* bg.add_task(_send_email, _email, _username): the task runs after the
\* response, with the values captured by the handler.
RunTask(t) ==
  /\ bgTasks # <<>>
  /\ LET task == Head(bgTasks)
         user == CHOOSE u \in Users : u.username = task.username
     IN StartMagicLink(t, [id |-> user.id, username |-> task.username,
                           email |-> Some(task.email)])
  /\ bgTasks' = Tail(bgTasks)
  /\ Alone(t)
  /\ UNCHANGED <<clock, ticks, config, tokens, issued, attempts, requestLog,
                 lastRequest, lastVerify, wins, calls>>

\* The store as an installation may have it: no SMTP settings yet, or the
\* settings of an admin write.
FlowInit ==
  /\ TokenInit
  /\ flags = AllOn
  /\ store \in {[smtp |-> None, prefs |-> EmptyMap]} \cup
               {[smtp |-> Some(Upsert(None, SmtpPayload(m, None))),
                 prefs |-> PreferencePayload(<<>>)] : m \in SmtpPayloads}
  /\ cache = EmptyCache
  /\ thr = [t \in Threads |-> Idle]
  /\ lastDone = None
  /\ calls = 0

FlowNext ==
  \/ \E email \in Identifiers, req \in IssueRequests :
       RequestMagicLink(email, req) /\ UNCHANGED emailVars
  \/ \E t \in {Worker} : RunTask(t)
  \/ \E t \in {Worker} : Sequential(t, Ensure(t))
  \/ \E t \in {Worker} : Sequential(t, LoadDb(t))
  \/ \E t \in {Worker} : Sequential(t, LoadSetSettings(t))
  \/ \E t \in {Worker} : Sequential(t, LoadSetPreferences(t))
  \/ \E t \in {Worker} : Sequential(t, MagicLinkCheck(t))
  \/ \E t \in {Worker} : Sequential(t, MessageFrom(t))
  \/ \E t \in {Worker} : Sequential(t, DeliverCheck(t))
  \/ \E t \in {Worker} : Sequential(t, DeliverConnect(t))
  \/ \E t \in {Worker} : Sequential(t, DeliverSend(t))

\* The magic-link request with the mail it schedules.
SpecFlow == FlowInit /\ [][FlowNext]_vars

\* ------------------------------------------------ magic-link: properties

OnTime(v) == v.row # 0 /\ ~v.late

\* C1: of the consume attempts made with one issued token before it expires,
\* in any interleaving, exactly one succeeds and returns the token's user;
\* every other one fails with already_used and is redirected to login=invalid.
C1_ExactlyOneWinner ==
  /\ \A r \in 1..Len(tokens) :
       /\ wins[r] <= 1
       /\ (wins[r] = 1) <=> ~IsNone(tokens[r].used_at)
  /\ ~IsNone(lastVerify) =>
       LET v == Get(lastVerify) IN
       OnTime(v) =>
         /\ wins[v.row] = 1
         /\ \/ /\ IsNone(v.error)
               /\ v.user = Some(UserById(tokens[v.row].user_id))
               /\ v.response.target = "/?login=success"
            \/ /\ v.error = Some("already_used")
               /\ IsNone(v.user)
               /\ v.response.target = "/?login=invalid"
               /\ IsNone(v.response.cookie)

\* A concurrent loser: its lookup saw the row unused, its update lost.
C1_Witness ==
  /\ ~IsNone(lastVerify)
  /\ OnTime(Get(lastVerify))
  /\ Get(lastVerify).unused
  /\ Get(lastVerify).error = Some("already_used")

\* C2: used_at of a row changes only from null to a value, only in a consume
\* step of an attempt on that row, and only when the row's expires_at had not
\* passed at the attempt's time.
C2_UsedAtSetOnce ==
  [][\A r \in 1..Len(tokens) :
       tokens'[r].used_at # tokens[r].used_at =>
         /\ IsNone(tokens[r].used_at)
         /\ ~IsNone(tokens'[r].used_at)
         /\ Get(tokens'[r].used_at) <= tokens[r].expires_at
         /\ \E a \in BagToSet(attempts) :
              /\ a.row = r
              /\ a.now <= tokens[r].expires_at
              /\ attempts' = attempts (-) SetToBag({a})]_vars

C2_Witness == \E r \in 1..Len(tokens) : ~IsNone(tokens[r].used_at)

\* C3: an attempt made after expires_at on a token that was never consumed
\* fails with expired, is redirected to login=expired without a cookie, and
\* the step that finishes it leaves the token table unchanged.
C3_ExpiredRejected ==
  /\ [](~IsNone(lastVerify) =>
          LET v == Get(lastVerify) IN
          (v.row # 0 /\ v.late /\ v.unused) =>
            /\ v.error = Some("expired")
            /\ IsNone(v.user)
            /\ v.response.target = "/?login=expired"
            /\ IsNone(v.response.cookie))
  /\ [][(~IsNone(lastVerify') /\ Get(lastVerify').row # 0 /\ Get(lastVerify').late)
          => tokens' = tokens]_vars

C3_Witness ==
  /\ ~IsNone(lastVerify)
  /\ Get(lastVerify).late
  /\ Get(lastVerify).unused
  /\ Get(lastVerify).error = Some("expired")
  /\ IsNone(tokens[Get(lastVerify).row].used_at)

\* C4: the magic-link request endpoint gives one and the same response,
\* status 202 with the generic message, whether no account matched, the
\* account has no email, or the account has an email.
C4_SameResponse ==
  /\ Cardinality(requestLog) <= 1
  /\ \A r \in requestLog : r.status = 202 /\ r.detail = GENERIC_MESSAGE
  /\ ~IsNone(lastRequest) => Get(lastRequest).response \in requestLog

\* All three cases have been served: a token exists (account with email) and
\* the last two kinds of request are the ones that match nothing usable.
C4_Witness ==
  /\ tokens # <<>>
  /\ ~IsNone(lastRequest)
  /\ Get(lastRequest).case = "no_email"
  /\ Cardinality(requestLog) = 1

\* C11: the end-to-end flow. A request for an account with an email adds
\* exactly one row, with used_at null and expires_at = issue time + the
\* configured TTL, and any other request adds none; a GET that finishes on
\* time on a row whose used_at was still null redirects to login=success
\* with a session cookie for the row's user and sets used_at; a GET that
\* finishes on a row whose used_at was already set redirects to
\* login=invalid, sets no cookie and changes no row.
C11_EndToEnd ==
  [][/\ ~IsNone(lastRequest') =>
          IF Get(lastRequest').case = "with_email"
          THEN /\ Len(tokens') = Len(tokens) + 1
               /\ SubSeq(tokens', 1, Len(tokens)) = tokens
               /\ IsNone(tokens'[Len(tokens')].used_at)
               /\ tokens'[Len(tokens')].created_at = clock
               /\ tokens'[Len(tokens')].expires_at =
                    clock + (IF config.login_ttl > 0 THEN config.login_ttl ELSE 15)
          ELSE tokens' = tokens
     /\ (~IsNone(lastVerify') /\ Get(lastVerify').row # 0) =>
          LET v == Get(lastVerify')
              row == tokens[v.row]
          IN /\ (IsNone(row.used_at) /\ ~v.late) =>
                  /\ v.response.target = "/?login=success"
                  /\ v.response.status = 303
                  /\ ~IsNone(v.response.cookie)
                  /\ Get(v.response.cookie).value = <<"session", row.user_id>>
                  /\ ~IsNone(tokens'[v.row].used_at)
             /\ ~IsNone(row.used_at) =>
                  /\ v.response.target = "/?login=invalid"
                  /\ v.response.status = 303
                  /\ IsNone(v.response.cookie)
                  /\ tokens' = tokens]_vars

\* A later GET: the row was consumed before this attempt looked it up.
C11_Witness ==
  /\ ~IsNone(lastVerify)
  /\ Get(lastVerify).row # 0
  /\ ~Get(lastVerify).unused
  /\ ~IsNone(tokens[Get(lastVerify).row].used_at)
  /\ Get(lastVerify).response.target = "/?login=invalid"

\* C12: a failed verification is redirected with one of two reasons:
\* expired gives login=expired, not_found and already_used both give
\* login=invalid with the same response; inside consume the two stay
\* different codes, not_found for a token no row matches and already_used
\* for a row whose used_at is set.
C12_TwoExternalReasons ==
  ~IsNone(lastVerify) =>
    LET v == Get(lastVerify)
        invalid == [target |-> "/?login=invalid", status |-> 303, cookie |-> None]
    IN /\ IsNone(v.user) <=> ~IsNone(v.error)
       /\ ~IsNone(v.error) =>
            /\ v.error \in {Some("not_found"), Some("already_used"), Some("expired")}
            /\ v.response.target \in {"/?login=invalid", "/?login=expired"}
            /\ v.error = Some("expired") <=> v.response.target = "/?login=expired"
            /\ v.error \in {Some("not_found"), Some("already_used")} => v.response = invalid
            /\ v.error = Some("not_found") <=> v.row = 0
            /\ v.error = Some("already_used") => ~IsNone(tokens[v.row].used_at)

\* An unknown token is refused while an issued token has been used.
C12_Witness ==
  /\ ~IsNone(lastVerify)
  /\ Get(lastVerify).error = Some("not_found")
  /\ Get(lastVerify).response.target = "/?login=invalid"
  /\ \E r \in 1..Len(tokens) : ~IsNone(tokens[r].used_at)

\* C20: a verification sets a cookie exactly when it succeeds; the cookie is
\* HTTP-only, SameSite=lax, for path "/", with max_age = session TTL * 60
\* seconds when the TTL is > 0 and none otherwise, and secure exactly when
\* the request of that verification came over https.
C20_SessionCookie ==
  /\ [](~IsNone(lastVerify) =>
          LET v == Get(lastVerify) IN
          /\ ~IsNone(v.response.cookie) <=> IsNone(v.error)
          /\ ~IsNone(v.response.cookie) =>
               LET ck == Get(v.response.cookie) IN
               /\ v.response.target = "/?login=success"
               /\ ck.httponly
               /\ ck.samesite = "lax"
               /\ ck.path = "/"
               /\ ck.max_age = (IF config.session_ttl > 0
                                THEN Some(config.session_ttl * 60) ELSE None))
  /\ [][(~IsNone(lastVerify') /\ ~IsNone(Get(lastVerify').response.cookie)) =>
          \E a \in BagToSet(attempts) :
            /\ attempts' = attempts (-) SetToBag({a})
            /\ Get(Get(lastVerify').response.cookie).secure = (Get(a.req).scheme = "https")]_vars

\* A success over plain http with no session TTL: a cookie that is neither
\* secure nor limited in age.
C20_Witness ==
  /\ ~IsNone(lastVerify)
  /\ ~IsNone(Get(lastVerify).response.cookie)
  /\ ~Get(Get(lastVerify).response.cookie).secure
  /\ IsNone(Get(Get(lastVerify).response.cookie).max_age)
  /\ config.session_ttl = 0

\* C28: the mail of a magic-link request is a task scheduled in the step
\* that creates the row, so a task that waits or runs has its row; whatever
\* the task does (mail sent, SMTP not configured, transport fault, store
\* fault), the steps of the task change neither the token table nor the
\* responses given, which are the 202 generic message.
C28_DeferredMailChangesNothing ==
  /\ [](/\ \A i \in 1..Len(bgTasks) :
             \E r \in 1..Len(tokens) :
               /\ tokens[r].token_hash = Hash(bgTasks[i].link[2])
               /\ Some(bgTasks[i].email) = UserById(tokens[r].user_id).email
               /\ tokens[r].expires_at = tokens[r].created_at + bgTasks[i].expires_in_minutes
        /\ \A t \in Threads :
             thr[t].op = "magic" =>
               \E r \in 1..Len(tokens) : Get(thr[t].user).id = tokens[r].user_id
        /\ \A resp \in requestLog : resp = [status |-> 202, detail |-> GENERIC_MESSAGE])
  /\ [][(thr' # thr \/ lastDone' # lastDone) =>
          /\ tokens' = tokens
          /\ requestLog' = requestLog
          /\ lastRequest' = lastRequest]_vars

\* The mail server could not be reached; the row and the response stand.
C28_Witness ==
  /\ ~IsNone(lastDone)
  /\ Get(lastDone).op = "magic"
  /\ Get(lastDone).fail = "connect"
  /\ Get(lastDone).result = Some(FALSE)
  /\ Len(tokens) = 1 /\ IsNone(tokens[1].used_at)
  /\ requestLog = {AcceptedResponse}
  /\ bgTasks = <<>>

\* C29: the lifetime handed to the issuance is a positive number of
\* minutes, the configured one when that is positive and fifteen otherwise;
\* every row expires strictly after its creation, by that lifetime, and the
\* mail announces the same lifetime.
C29_LifetimePositive ==
  /\ ExpiresIn \in Nat \ {0}
  /\ ExpiresIn = (IF config.login_ttl >= 1 THEN config.login_ttl ELSE 15)
  /\ \A r \in 1..Len(tokens) :
       /\ tokens[r].expires_at > tokens[r].created_at
       /\ tokens[r].expires_at - tokens[r].created_at = ExpiresIn
  /\ \A i \in 1..Len(bgTasks) : bgTasks[i].expires_in_minutes = ExpiresIn

\* A row issued under a lifetime configured as zero, after time has passed.
C29_Witness ==
  /\ config.login_ttl = 0
  /\ \E r \in 1..Len(tokens) :
       /\ tokens[r].created_at > 0
       /\ tokens[r].expires_at = tokens[r].created_at + DefaultLoginTTL
  /\ Len(bgTasks) > 0

\* C30: the token table only grows, by one unused row per issuance and with
\* the rows it had left as they were; a row changes only in a successful
\* consume, which fills used_at, consumed_ip and consumed_user_agent of an
\* unused row and nothing else; a consume that fails changes no row, so what
\* the winner recorded is never overwritten.
C30_RowsWrittenOnlyByIssueAndWinner ==
  [][/\ Len(tokens') \in {Len(tokens), Len(tokens) + 1}
     /\ Len(tokens') = Len(tokens) + 1 =>
          /\ SubSeq(tokens', 1, Len(tokens)) = tokens
          /\ IsNone(tokens'[Len(tokens')].used_at)
          /\ IsNone(tokens'[Len(tokens')].consumed_ip)
          /\ IsNone(tokens'[Len(tokens')].consumed_user_agent)
          /\ Len(bgTasks') = Len(bgTasks) + 1
          /\ ~IsNone(lastRequest')
     /\ \A r \in 1..Len(tokens) :
          tokens'[r] # tokens[r] =>
            /\ IsNone(tokens[r].used_at) /\ ~IsNone(tokens'[r].used_at)
            /\ tokens'[r] = [tokens[r] EXCEPT !.used_at = tokens'[r].used_at,
                                              !.consumed_ip = tokens'[r].consumed_ip,
                                              !.consumed_user_agent = tokens'[r].consumed_user_agent]
            /\ ~IsNone(lastVerify')
            /\ Get(lastVerify').row = r /\ IsNone(Get(lastVerify').error)
            /\ \A q \in 1..Len(tokens) : q # r => tokens'[q] = tokens[q]
     /\ (~IsNone(lastVerify') /\ ~IsNone(Get(lastVerify').error)) => tokens' = tokens
    ]_vars

\* An attempt that passed the checks and lost the update to another one:
\* the row holds what the winner wrote.
C30_Witness ==
  /\ ~IsNone(lastVerify)
  /\ Get(lastVerify).error = Some("already_used")
  /\ Get(lastVerify).unused
  /\ Get(lastVerify).row # 0
  /\ ~IsNone(tokens[Get(lastVerify).row].used_at)
  /\ ~IsNone(tokens[Get(lastVerify).row].consumed_user_agent)
  /\ wins[Get(lastVerify).row] = 1

\* C31: a request whose identifier, stripped, is the username of no account
\* (as posted, or lower-cased when that differs), or of an account without
\* an email, adds no row and schedules no mail; a request adds a row and a
\* mail only for the matched account with an email, and the mail goes to
\* the email registered for that account.
C31_OnlyMatchedAccountsGetALink ==
  /\ [](/\ \A r \in 1..Len(tokens) : ~Falsy(UserById(tokens[r].user_id).email)
        /\ \A i \in 1..Len(bgTasks) :
             \E u \in Users : /\ u.username = bgTasks[i].username
                              /\ u.email = Some(bgTasks[i].email))
  /\ [][\A email \in Identifiers, req \in Requests :
          RequestMagicLinkWithin(email, req, MaxTokens + 1) =>
            LET id == Strip(email)
                exact == {u \in Users : u.username = id}
                matched == IF exact # {} THEN exact
                           ELSE IF Lower(id) # id
                                THEN {u \in Users : u.username = Lower(id)}
                                ELSE {}
                usable == {u \in matched : ~IsNone(u.email) /\ Get(u.email) # ""}
            IN IF usable = {}
               THEN tokens' = tokens /\ bgTasks' = bgTasks /\ issued' = issued
               ELSE /\ Len(tokens') = Len(tokens) + 1
                    /\ SubSeq(tokens', 1, Len(tokens)) = tokens
                    /\ Len(bgTasks') = Len(bgTasks) + 1
                    /\ SubSeq(bgTasks', 1, Len(bgTasks)) = bgTasks
                    /\ \E u \in usable :
                         /\ tokens'[Len(tokens')].user_id = u.id
                         /\ bgTasks'[Len(bgTasks')].username = u.username
                         /\ bgTasks'[Len(bgTasks')].email = Get(u.email)
       ]_vars

\* One link was issued, to the account with an email, and the request just
\* served matched no account: the table and the tasks are those of the
\* single issuance.
C31_Witness ==
  /\ Len(tokens) = 1 /\ Len(bgTasks) = 1
  /\ UserById(tokens[1].user_id).username = "ann@x.com"
  /\ bgTasks[1].email = "ann@x.com"
  /\ ~IsNone(lastRequest)
  /\ Get(lastRequest).case = "no_account"

\* ------------------------------------------- properties: notification side

\* The frame of the call that finished last, if any, and every frame.
DoneFrames == IF IsNone(lastDone) THEN {} ELSE {Get(lastDone)}

AllFrames == {thr[t] : t \in Threads} \cup DoneFrames

\* The faults of the SMTP conversation.
TransportFaults == {"connect", "starttls", "login", "send"}

\* Whether an entry point, once past its switch, hands its event to send.
DispatchesEmail(f) == ~IsNone(f.trigger) /\ ~IsNone(f.user)

\* C5: in an entry point that calls both reporter channels, an exception of
\* telegram or of discord never leaves the entry point; unless the store
\* faults, the entry point then still calls both channels and send (when
\* the event has a trigger and a user) and returns normally.
C5_ChannelFailureContained ==
  \A f \in DoneFrames :
    (f.op = "event" /\ HasChannels(f.kind) /\ (f.tgRaised \/ f.dcRaised)) =>
      /\ f.raisedBy \notin {"telegram", "discord"}
      /\ f.raisedBy # "store" =>
           /\ f.outcome = "returned"
           /\ f.tgCalled /\ f.dcCalled
           /\ DispatchesEmail(f) => (f.notified /\ f.emailCalled)

C5_Witness ==
  \E f \in DoneFrames :
    /\ f.kind = "user_created" /\ f.tgRaised /\ f.dcRaised
    /\ f.emailCalled /\ f.attempted /\ f.outcome = "returned"

\* C6: a failure of the connection, of STARTTLS, of the login or of the
\* submission never leaves send: _deliver_email yields False, and the entry
\* point goes on to its next statement (discord, or the reminder).
C6_TransportFailureSwallowed ==
  \A f \in AllFrames :
    (f.op = "event" /\ f.fail \in TransportFaults) =>
      /\ f.raisedBy # "transport"
      /\ f.result = Some(FALSE)
      /\ f.pc \in {AfterSend(f.kind), "done"}
      /\ f.pc = "done" =>
           IF HasChannels(f.kind) THEN f.dcCalled /\ f.outcome = "returned"
           ELSE f.remCalled = (f.kind = "data_usage_percent_reached"
                               \/ flags["NOTIFY_IF_DAYS_LEFT_REACHED"])

C6_Witness ==
  \E f \in DoneFrames :
    /\ f.op = "event" /\ f.fail = "starttls" /\ f.trace = <<"SMTP", "starttls">>
    /\ f.dcCalled /\ f.outcome = "returned"

\* C7: send reaches the transport only for a user with an email, with SMTP
\* settings in the cache and the trigger's cached preference enabled; and an
\* event that starts on an invalidated cache while the store has its
\* trigger disabled makes no transport attempt, and returns normally unless
\* the store faults.
C7_AttemptOnlyWhenEnabled ==
  \A f \in AllFrames :
    f.op = "event" =>
      /\ f.attempted =>
           /\ ~Falsy(Get(f.user).email)
           /\ ~IsNone(cache.settings)
           /\ Truthy(MapGet(cache.preferences, Get(f.trigger)))
      /\ (f.pc = "done" /\ f.startedEmpty /\ ~f.stored) =>
           /\ ~f.attempted
           /\ f.raisedBy # "store" => f.outcome = "returned"

C7_Witness ==
  \E f \in DoneFrames :
    /\ f.kind = "user_created" /\ f.startedEmpty /\ f.reloaded
    /\ ~IsNone(store.smtp)
    /\ MapGet(store.prefs, "user_created") = Some(FALSE)
    /\ ~Falsy(Get(f.user).email) /\ f.emailCalled /\ f.sawSettings
    /\ ~f.attempted /\ f.dcCalled /\ f.outcome = "returned"

\* C8: an is_enabled call that starts on an invalidated cache reloads from
\* the store and returns what the store holds for the trigger; a trigger
\* with no stored row gives false.
C8_FreshAfterInvalidate ==
  \A f \in DoneFrames :
    (f.op = "is_enabled" /\ f.startedEmpty /\ f.outcome = "returned") =>
      /\ f.reloaded
      /\ IF Get(f.trigger) \in DOMAIN store.prefs
         THEN f.result = Some(store.prefs[Get(f.trigger)])
         ELSE f.result = Some(FALSE)

C8_Witness ==
  \E f \in DoneFrames :
    /\ f.op = "is_enabled" /\ f.startedEmpty /\ f.reloaded
    /\ f.trigger = Some("reached_usage_percent")
    /\ MapGet(store.prefs, "reached_usage_percent") = Some(TRUE)
    /\ MapGet(store.prefs, "user_created") = Some(FALSE)
    /\ f.result = Some(TRUE)

\* C9: the settings and the preference map one call reads come from the
\* same build of the cache.
C9_SameSnapshot ==
  \A f \in AllFrames :
    (f.op # "idle" /\ ~IsNone(f.obsS) /\ ~IsNone(f.obsP)) => f.obsS = f.obsP

\* C10: a write call that changed the store has invalidated the cache by
\* the time it is over.
C10_WriteInvalidates ==
  \A f \in DoneFrames :
    (f.op = "write" /\ f.wrote) => f.invalidated

\* C13: send called for a user without an email does nothing, whatever the
\* trigger and the context: the call makes no transport call, does not look
\* at the configuration and does not reload it, so the cache is as it was
\* when the entry point started.
C13_NoEmailNoOp ==
  \A f \in AllFrames :
    (f.op = "event" /\ f.emailCalled /\ Falsy(Get(f.user).email)) =>
      /\ ~f.attempted
      /\ f.trace = <<>>
      /\ ~f.reloaded
      /\ ~f.sawSettings /\ ~f.sawPref
      /\ IsNone(f.obsS) /\ IsNone(f.obsP)
      /\ IsEmptyCache(cache) <=> f.startedEmpty
      /\ f.raisedBy # "store" \/ f.remCalled

\* The event would have been mailed had the user an address: the store
\* holds settings and the trigger is enabled.
C13_Witness ==
  \E f \in DoneFrames :
    /\ f.op = "event" /\ f.kind = "user_created" /\ f.emailCalled
    /\ IsNone(Get(f.user).email)
    /\ ~IsNone(store.smtp)
    /\ MapGet(store.prefs, "user_created") = Some(TRUE)
    /\ f.startedEmpty /\ IsEmptyCache(cache)
    /\ f.outcome = "returned"

\* C14: a body with use_tls and use_ssl both on is rejected, also when
\* use_tls is left out and so defaults to on; neither the stored nor the
\* cached SMTP settings ever have both flags on.
C14_NeverBothTlsAndSsl ==
  /\ \A raw \in RawSmtpPayloads :
       (FieldOr(raw.use_tls, TRUE) /\ FieldOr(raw.use_ssl, FALSE)) =>
          ValidateTlsSslRaises(raw)
  /\ ~IsNone(store.smtp) => ~(Get(store.smtp).use_tls /\ Get(store.smtp).use_ssl)
  /\ ~IsNone(cache.settings) =>
       ~(Get(cache.settings).use_tls /\ Get(cache.settings).use_ssl)
  /\ \A f \in AllFrames :
       (f.op = "write" /\ ~IsNone(f.smtp)) => ~(Get(f.smtp).use_tls /\ Get(f.smtp).use_ssl)

\* A body was rejected after settings with implicit SSL had been stored and
\* loaded into the cache.
C14_Witness ==
  /\ \E f \in DoneFrames : f.op = "write" /\ f.outcome = "rejected"
  /\ ~IsNone(store.smtp) /\ Get(store.smtp).use_ssl
  /\ ~IsNone(cache.settings) /\ Get(cache.settings).use_ssl

\* C15: status_change with its switch on publishes one notification record
\* and calls send once, with user_limited, user_expired, user_disabled or
\* user_enabled for the destination limited, expired, disabled or active;
\* for any other destination it publishes nothing and does not call send.
\* The trigger is the same for every user the event is about.
C15_StatusTriggerByDestination ==
  \A f \in AllFrames :
    (f.op = "event" /\ f.kind = "status_change") =>
      LET expected ==
            [s \in Statuses |->
               IF s = "limited" THEN Some("user_limited")
               ELSE IF s = "expired" THEN Some("user_expired")
               ELSE IF s = "disabled" THEN Some("user_disabled")
               ELSE IF s = "active" THEN Some("user_enabled")
               ELSE None]
      IN /\ f.trigger = expected[f.status]
         /\ (f.pc = "done" /\ flags["NOTIFY_STATUS_CHANGE"] /\ ~IsNone(expected[f.status])) =>
              f.notified /\ f.emailCalled
         /\ IsNone(expected[f.status]) =>
              ~f.notified /\ ~f.emailCalled /\ ~f.attempted
         /\ f.attempted => f.sawPref /\ PreferenceEnabled(cache, Get(expected[f.status]))

\* Both kinds of destination: a finished on_hold event left nothing behind
\* while the store has user_limited enabled.
C15_Witness ==
  \E f \in DoneFrames :
    /\ f.op = "event" /\ f.kind = "status_change" /\ f.status = "on_hold"
    /\ flags["NOTIFY_STATUS_CHANGE"]
    /\ f.tgCalled /\ f.dcCalled /\ ~f.notified /\ ~f.emailCalled
    /\ MapGet(store.prefs, "user_limited") = Some(TRUE)

\* C16: an entry point whose switch is off publishes no notification
\* record, does not call send and calls no reporter channel.
C16_GatedByOwnFlag ==
  \A f \in AllFrames :
    (f.op = "event" /\ ~flags[GateFlag(f.kind)]) =>
      /\ ~f.notified
      /\ ~f.emailCalled
      /\ ~f.tgCalled /\ ~f.dcCalled

\* The columns of user_login_tokens.
TokenColumns ==
  {"id", "user_id", "token_hash", "created_at", "expires_at", "used_at",
   "requested_ip", "requested_user_agent", "consumed_ip", "consumed_user_agent"}

\* C17: a row has the table's columns and no other; token_hash holds the
\* digest of the issued token and never the token itself, the address and
\* agent columns hold what the request carried; two rows never have the
\* same token_hash.
C17_OnlyHashStored ==
  /\ \A r \in 1..Len(tokens) :
       /\ DOMAIN tokens[r] = TokenColumns
       /\ tokens[r].token_hash \notin {<<"plaintext", p>> : p \in issued}
       /\ \E p \in issued : tokens[r].token_hash = <<"sha256", p>>
       /\ tokens[r].requested_ip \in {GetClientIp(req) : req \in Requests}
       /\ tokens[r].requested_user_agent \in {req.user_agent : req \in Requests}
       /\ IsNone(tokens[r].consumed_ip) /\ IsNone(tokens[r].consumed_user_agent)
  /\ \A r1, r2 \in 1..Len(tokens) :
       r1 # r2 => tokens[r1].token_hash # tokens[r2].token_hash
  /\ Cardinality(issued) = Len(tokens)

\* Two issuances for the same account.
C17_Witness ==
  /\ Len(tokens) = 2
  /\ tokens[1].user_id = tokens[2].user_id
  /\ Cardinality(issued) = 2

\* C18: unless the store fails while the configuration is loaded,
\* send_magic_link returns a boolean and does not raise; the result is true
\* exactly when the SMTP conversation ran to the end of send_message without
\* a fault; with an empty email or with no SMTP settings the result is false
\* and no connection is opened; a transport fault gives false.
C18_MagicLinkResult ==
  \A f \in DoneFrames :
    (f.op = "magic" /\ f.raisedBy # "store") =>
      /\ f.outcome = "returned"
      /\ f.result \in {Some(TRUE), Some(FALSE)}
      /\ f.result = Some(TRUE) <=>
           /\ f.attempted
           /\ f.fail = ""
           /\ f.trace # <<>> /\ f.trace[Len(f.trace)] = "send_message"
      /\ Falsy(Get(f.user).email) => (f.result = Some(FALSE) /\ ~f.attempted /\ ~f.reloaded)
      /\ IsNone(store.smtp) => (f.result = Some(FALSE) /\ ~f.attempted)
      /\ ~f.sawSettings => (f.result = Some(FALSE) /\ ~f.attempted)
      /\ f.fail \in TransportFaults => (f.result = Some(FALSE) /\ f.attempted)

\* The mail server refused the message after the login.
C18_Witness ==
  \E f \in DoneFrames :
    /\ f.op = "magic" /\ f.outcome = "returned"
    /\ f.fail = "send" /\ f.trace = <<"SMTP", "starttls", "login", "send_message">>
    /\ f.result = Some(FALSE)

\* C19: when the handler writes over stored SMTP settings, a body whose
\* password is the empty string or is left out leaves the stored password
\* as it was, and a body with a non-empty password stores that password.
C19_SecretOnWrite ==
  [][\A t \in Threads :
       (/\ thr[t].pc = "w_upsert"
        /\ thr'[t].pc = "w_prefs"
        /\ ~IsNone(store.smtp)) =>
         LET m == Get(thr[t].smtp) IN
         /\ ~IsNone(store'.smtp)
         /\ IF IsNone(m.password) \/ m.password = Some("")
            THEN Get(store'.smtp).password = Get(store.smtp).password
            ELSE Get(store'.smtp).password = m.password]_vars

\* A body with an empty password was written over settings that held pw1,
\* and pw1 is still stored.
C19_Witness ==
  \E f \in DoneFrames :
    /\ f.op = "write" /\ f.wrote /\ f.outcome = "returned"
    /\ Get(f.smtp).password = Some("")
    /\ ~IsNone(store.smtp)
    /\ Get(store.smtp).password = Some("pw1")
    /\ Get(store.smtp).use_ssl

\* C21: once an entry point has called send, a failure inside send (the
\* reload of the configuration included) does not leave the entry point:
\* the entry point returns normally and, where it reports to the channels,
\* has called discord.
C21_DispatchFailureContained ==
  \A f \in DoneFrames :
    (f.op = "event" /\ f.emailCalled /\ ~f.remCalled) =>
      /\ f.outcome = "returned"
      /\ HasChannels(f.kind) => f.dcCalled

\* C22: an entry point for a lifecycle event whose switch is on, when it
\* returns, has published the notification record, called send with the
\* trigger of the event and called telegram and discord.
C22_EveryEventFansOut ==
  \A f \in DoneFrames :
    (/\ f.op = "event" /\ f.kind # "login"
     /\ ~(f.kind = "status_change" /\ f.status = "on_hold")
     /\ flags[GateFlag(f.kind)]
     /\ f.outcome = "returned") =>
      /\ f.notified
      /\ f.emailCalled
      /\ f.trigger = KindTrigger(f.kind, f.status)
      /\ f.tgCalled /\ f.dcCalled

\* C23: when no call is in flight, what is_enabled would answer from the
\* cache is what the store holds: either the cache is invalidated, so the
\* next read reloads, or its preference of every trigger is the stored one.
C23_NoStaleSnapshot ==
  ((\A t \in Threads : thr[t].op = "idle") /\ ~EnsureNeedsLoad(cache)) =>
    \A trigger \in Triggers : PreferenceEnabled(cache, trigger) = StoredEnabled(trigger)

\* C24: a send or send_magic_link call that runs while another thread
\* invalidates the cache never ends in the exception of reading a field of
\* absent settings.
C24_NoDerefAfterCheck ==
  \A f \in DoneFrames :
    f.op \in {"event", "magic"} => f.raisedBy # "attribute"

\* C25: with calls run one at a time, a call goes to the store for the
\* configuration only when the cache has not been loaded since construction
\* or since the last invalidate.
C25_ReloadOnlyWhenInvalidated ==
  \A t \in Threads :
    (thr[t].op # "idle" /\ thr[t].pc = "load_db") => IsNone(cache.last_loaded)

\* The position of a call in the SMTP conversation of a frame, 0 if absent.
Pos(trace, call) ==
  IF \E i \in 1..Len(trace) : trace[i] = call
  THEN CHOOSE i \in 1..Len(trace) : trace[i] = call /\ \A j \in 1..(i - 1) : trace[j] # call
  ELSE 0

\* C26: a delivery uses implicit SSL or STARTTLS but not both; it logs in
\* only on a channel that was secured by one of them, and when it logs in
\* the message is sent after the login.
C26_SecureThenLoginThenSend ==
  \A f \in AllFrames :
    (f.op # "idle" /\ f.attempted) =>
      LET secured == IF Pos(f.trace, "SMTP_SSL") > 0 THEN Pos(f.trace, "SMTP_SSL")
                     ELSE Pos(f.trace, "starttls")
      IN /\ ~(Pos(f.trace, "SMTP_SSL") > 0 /\ Pos(f.trace, "starttls") > 0)
         /\ Pos(f.trace, "login") > 0 =>
              /\ secured > 0
              /\ secured < Pos(f.trace, "login")
         /\ (Pos(f.trace, "login") > 0 /\ Pos(f.trace, "send_message") > 0) =>
              Pos(f.trace, "login") < Pos(f.trace, "send_message")
         /\ (Pos(f.trace, "send_message") > 0 /\ LoginRequired(cache)) =>
              Pos(f.trace, "login") > 0

\* The connections a delivery opened.
Connections(trace) == SelectSeq(trace, LAMBDA call : call \in {"SMTP", "SMTP_SSL"})

\* C27: for every trigger and every context, the keys percent and days
\* absent included, _render gives a subject and a body that are not empty,
\* and leaving the number out only drops its line; so a send for a user with
\* an email, with settings stored and the trigger enabled, opens exactly one
\* connection unless the store fails while the configuration is loaded.
C27_RenderNeverEmpty ==
  \A f \in AllFrames :
    (f.op = "event" /\ f.kind = "send") =>
      LET r == Render(Get(f.trigger), Get(f.user), f.context)
          bare == Render(Get(f.trigger), Get(f.user),
                         [f.context EXCEPT !.percent = None, !.days = None])
      IN /\ r.subject # ""
         /\ r.body # <<>>
         /\ bare.subject = r.subject
         /\ bare.body = SelectSeq(r.body, LAMBDA line : line \notin {"percent", "days"})
         /\ (/\ f.pc = "done"
             /\ ~Falsy(Get(f.user).email)
             /\ ~IsNone(store.smtp)
             /\ StoredEnabled(Get(f.trigger))
             /\ f.raisedBy # "store") =>
              /\ f.outcome = "returned"
              /\ f.attempted
              /\ Len(Connections(f.trace)) = 1

\* The usage alert was sent although the context had no percent.
C27_Witness ==
  \E f \in DoneFrames :
    /\ f.op = "event" /\ f.kind = "send"
    /\ f.trigger = Some("reached_usage_percent")
    /\ f.context = NoContext
    /\ f.attempted /\ f.result = Some(TRUE)
\* C32: the preference write of a configuration write stores a value for
\* each of the twelve triggers: for a trigger the body lists, the value of
\* its last entry; for a trigger the body leaves out, disabled, whatever was
\* stored for it before.
C32_WriteSetsEveryTrigger ==
  [][\A t \in Threads :
       (/\ thr[t].pc = "w_prefs"
        /\ thr'[t].pc = "w_inv_s") =>
         LET list == thr[t].prefsIn
             entries(trigger) == {i \in 1..Len(list) : list[i].trigger = trigger}
             last(trigger) == CHOOSE i \in entries(trigger) :
                                \A j \in entries(trigger) : j <= i
         IN /\ DOMAIN store'.prefs = Triggers
            /\ Cardinality(DOMAIN store'.prefs) = 12
            /\ \A trigger \in Triggers :
                 store'.prefs[trigger] =
                   IF entries(trigger) = {} THEN FALSE
                   ELSE list[last(trigger)].enabled]_vars

\* user_limited was stored as enabled (the cache still holds that reading);
\* a write whose body leaves it out, and lists user_created twice, has just
\* stored its preferences: user_limited is disabled and user_created has
\* the value of its last entry.
C32_Witness ==
  \E t \in Threads :
    /\ thr[t].op = "write" /\ thr[t].pc = "w_inv_s"
    /\ \A i \in 1..Len(thr[t].prefsIn) : thr[t].prefsIn[i].trigger # "user_limited"
    /\ \E i, j \in 1..Len(thr[t].prefsIn) :
         /\ i < j
         /\ thr[t].prefsIn[i].trigger = "user_created" /\ thr[t].prefsIn[i].enabled
         /\ thr[t].prefsIn[j].trigger = "user_created" /\ ~thr[t].prefsIn[j].enabled
    /\ Truthy(MapGet(cache.preferences, "user_limited"))
    /\ ~StoredEnabled("user_limited")
    /\ ~StoredEnabled("user_created")
    /\ StoredEnabled("reached_usage_percent")


====
